---- MODULE Spec2Model ----
(***************************************************************************)
(* Rule evaluation core of the runtime security rule engine:               *)
(* pkg/security/secl/rules/ruleset.go (RuleSet, its registry of rules, its *)
(* per-event-type buckets, Evaluate, IsDiscarder and listener fan-out).    *)
(*                                                                         *)
(* The expression evaluator (package eval) and RuleBucket are collaborators*)
(* whose code is outside the modelled file; they are modelled by a small   *)
(* catalogue of expressions (conjunctions of `field == value` atoms) and   *)
(* by the behaviour the design document gives them.                        *)
(***************************************************************************)
EXTENDS Integers, Sequences, FiniteSets, TLC

(***************************************************************************)
(* Bounds of the model.                                                    *)
(***************************************************************************)
\* longest batch handed to AddRules
MaxBatch == 3
\* most listeners registered with AddListener
MaxListeners == 2

\* GenPartials calls on one rule are counted up to this number
MaxGenCalls == 2

\* the events the agent's listener dispatches are counted up to this number
MaxDispatched == 2

(***************************************************************************)
(* Inputs: identifiers, fields, event types, values.                       *)
(***************************************************************************)
\* "rsv" is the identifier the options reserve, "r1" and "r2" are free
RuleIDs == {"r1", "r2", "rsv"}

EventTypes == {"open", "exec"}

Fields == {"open.filename", "open.flags", "exec.path"}

\* a field name no event type declares
UnknownField == "bogus.field"

Values == {"a", "b"}

Listeners == {"l1", "l2"}

\* the event type a field belongs to (the data model's field table)
FieldEventType(f) ==
    CASE f = "open.filename" -> "open"
      [] f = "open.flags"    -> "open"
      [] f = "exec.path"     -> "exec"

(***************************************************************************)
(* The expression catalogue.  Each expression is what the evaluator layer  *)
(* makes of its text: whether it parses, whether it compiles, the atoms    *)
(* `field == value` whose conjunction it is, and whether its partial       *)
(* evaluators can be generated.                                            *)
(***************************************************************************)
Expressions == {"fa", "fafb", "xa", "multi", "noev", "syn", "comp", "pfail"}

Atom(f, v) == [f |-> f, v |-> v]

ExprInfo(e) ==
    CASE e = "fa"    -> [parse |-> TRUE,  compile |-> TRUE,  partialsOK |-> TRUE,
                         atoms |-> <<Atom("open.filename", "a")>>]
      [] e = "fafb"  -> [parse |-> TRUE,  compile |-> TRUE,  partialsOK |-> TRUE,
                         atoms |-> <<Atom("open.flags", "b"), Atom("open.filename", "a")>>]
      [] e = "xa"    -> [parse |-> TRUE,  compile |-> TRUE,  partialsOK |-> TRUE,
                         atoms |-> <<Atom("exec.path", "a")>>]
      [] e = "multi" -> [parse |-> TRUE,  compile |-> TRUE,  partialsOK |-> TRUE,
                         atoms |-> <<Atom("open.filename", "a"), Atom("exec.path", "a")>>]
      [] e = "noev"  -> [parse |-> TRUE,  compile |-> TRUE,  partialsOK |-> TRUE,
                         atoms |-> <<>>]
      [] e = "syn"   -> [parse |-> FALSE, compile |-> FALSE, partialsOK |-> FALSE,
                         atoms |-> <<Atom("open.filename", "a")>>]
      [] e = "comp"  -> [parse |-> TRUE,  compile |-> FALSE, partialsOK |-> FALSE,
                         atoms |-> <<Atom("open.filename", "a")>>]
      [] e = "pfail" -> [parse |-> TRUE,  compile |-> TRUE,  partialsOK |-> FALSE,
                         atoms |-> <<Atom("open.filename", "b")>>]
      [] e = "rm1"   -> [parse |-> TRUE,  compile |-> TRUE,  partialsOK |-> TRUE,
                         atoms |-> <<Atom("open.filename", "a")>>]

\* RuleDefinition{ID, Expression}
RuleDefinitions == [ID : RuleIDs, Expression : Expressions]

Def(id, e) == [ID |-> id, Expression |-> e]

\* the definitions batches are made of, and those loaded before events are evaluated
SampleDefinitions ==
    {Def("r1", "fa"), Def("r2", "fafb"), Def("r2", "xa"), Def("r1", "pfail"), Def("r2", "syn")}

\* the events of the event source: a type and a value for each field of that
\* type (the fields of the other types hold the zero value "")
Events ==
    { [type |-> "open",
       vals |-> [f \in Fields |-> IF f = "open.filename" THEN v1
                                  ELSE IF f = "open.flags" THEN v2 ELSE ""]]
        : v1 \in Values, v2 \in Values }
    \cup
    { [type |-> "exec",
       vals |-> [f \in Fields |-> IF f = "exec.path" THEN v1 ELSE ""]]
        : v1 \in Values }

(***************************************************************************)
(* Options handed to NewRuleSet.  EventTypeEnabled and SupportedDiscarders *)
(* are Go maps to bool of which the code reads the keys only; a nil        *)
(* SupportedDiscarders is [isNil |-> TRUE].                                *)
(***************************************************************************)
Wildcard == "*"

NewOpts(en, sd) ==
    [ReservedRuleIDs |-> <<"rsv">>, EventTypeEnabled |-> en, SupportedDiscarders |-> sd]

NilMap == [isNil |-> TRUE, m |-> << >>]

OptsChoices ==
    { NewOpts((Wildcard :> TRUE), NilMap),
      NewOpts(("open" :> TRUE), [isNil |-> FALSE, m |-> ("open.filename" :> TRUE)]),
      NewOpts(("open" :> TRUE @@ "exec" :> FALSE),
              [isNil |-> FALSE, m |-> ("open.flags" :> TRUE @@ "exec.path" :> FALSE)]) }

(***************************************************************************)
(* State.                                                                  *)
(***************************************************************************)
VARIABLES
    opts,               \* rs.opts
    rules,              \* rs.rules: RuleID -> Rule
    eventRuleBuckets,   \* rs.eventRuleBuckets: EventType -> RuleBucket
    fields,             \* rs.fields
    listeners,          \* rs.listeners
    pc,                 \* "idle", or "AddRules" while a batch is being loaded
    result,             \* AddRules' local multierror while pc = "AddRules"
    nDefs,              \* definitions of the running batch processed so far
    succeeded,          \* history: IDs of the definitions whose AddRule returned no error
    notified,           \* the listener callbacks made by the last call, in order
    last,               \* the last call: its operation, inputs and results
    macros,             \* rs.opts.Macros: MacroID -> Macro
    pool,               \* rs.pool: the contexts checked out and what each is bound to
    threads,            \* the goroutines that call Evaluate and IsDiscarder
    genCalls,           \* history: how often GenPartials was called on each rule
    second,             \* a second RuleSet made by NewRuleSet, and its options
    agent               \* the RuntimeSecurityAgent and its goroutines

vars == <<opts, rules, eventRuleBuckets, fields, listeners, pc, result, nDefs,
          succeeded, notified, last, macros, pool, threads, genCalls, second, agent>>

(***************************************************************************)
(* Helpers on sequences and maps.                                          *)
(***************************************************************************)
Range(s) == { s[i] : i \in 1..Len(s) }

Contains(s, x) == \E i \in 1..Len(s) : s[i] = x

\* a Go map: a function on its key set
EmptyMap == << >>

HasKey(m, k) == k \in DOMAIN m

Put(m, k, v) == [x \in (DOMAIN m) \cup {k} |-> IF x = k THEN v ELSE m[x]]

\* the keys of a map in one iteration order
RECURSIVE KeysInOrder(_)
KeysInOrder(S) ==
    IF S = {} THEN <<>>
    ELSE LET k == CHOOSE x \in S : TRUE
         IN  <<k>> \o KeysInOrder(S \ {k})

(***************************************************************************)
(* The evaluator of a rule (package eval, modelled).                       *)
(***************************************************************************)
\* the fields an expression references, each once, in order of appearance
RECURSIVE AtomFields(_, _)
AtomFields(atoms, acc) ==
    IF atoms = <<>> THEN acc
    ELSE AtomFields(Tail(atoms),
                    IF Contains(acc, Head(atoms).f) THEN acc
                    ELSE Append(acc, Head(atoms).f))

GetFields(rule) == AtomFields(ExprInfo(rule.Expression).atoms, <<>>)

\* the event types an expression references, each once, in order of appearance
RECURSIVE FieldTypes(_, _)
FieldTypes(fs, acc) ==
    IF fs = <<>> THEN acc
    ELSE FieldTypes(Tail(fs),
                    IF Contains(acc, FieldEventType(Head(fs))) THEN acc
                    ELSE Append(acc, FieldEventType(Head(fs))))

GetEventTypesOfRule(rule) == FieldTypes(GetFields(rule), <<>>)

\* rule.GenEvaluator(rs.model, &rs.opts.Opts): the expression "rm1" refers to
\* the macro m1, which must be in the macro table of the options
GenEvaluator(ms, e) ==
    IF e = "rm1" THEN HasKey(ms, "m1") ELSE ExprInfo(e).compile

\* Eval(ctx): the conjunction of the rule's atoms on the event
Eval(rule, event) ==
    LET atoms == ExprInfo(rule.Expression).atoms
    IN  \A i \in 1..Len(atoms) : event.vals[atoms[i].f] = atoms[i].v

\* PartialEval(ctx, field): the rule with only `field` known; an error when the
\* rule has no partial evaluator for the field
PartialEval(rule, event, field) ==
    LET atoms == ExprInfo(rule.Expression).atoms
    IN  IF ~rule.partials \/ ~Contains(GetFields(rule), field)
        THEN [isTrue |-> FALSE, err |-> "ErrFieldNotFound"]
        ELSE [isTrue |-> \A i \in 1..Len(atoms) :
                            atoms[i].f = field => event.vals[field] = atoms[i].v,
              err |-> "nil"]

\* event.GetFieldEventType(field)
GetFieldEventType(event, field) ==
    IF field \in Fields
    THEN [eventType |-> FieldEventType(field), err |-> "nil"]
    ELSE [eventType |-> "", err |-> "ErrFieldNotFound"]

(***************************************************************************)
(* RuleBucket (modelled): the rules of one event type and the fields they  *)
(* reference.                                                              *)
(***************************************************************************)
EmptyBucket == [rules |-> <<>>, fields |-> <<>>]

\* the union of a field list with new fields: no duplicate, insertion order kept
RECURSIVE MergeFields(_, _)
MergeFields(old, new) ==
    IF new = <<>> THEN old
    ELSE MergeFields(IF Contains(old, Head(new)) THEN old ELSE Append(old, Head(new)),
                     Tail(new))

\* bucket.AddRule that merges the fields but does not keep the rule
BucketAddRule_FieldsOnly(bucket, rule) ==
    IF \E i \in 1..Len(bucket.rules) : bucket.rules[i].ID = rule.ID
    THEN [err |-> "ErrDefinitionIDConflict", bucket |-> bucket]
    ELSE [err |-> "nil",
          bucket |-> [rules  |-> bucket.rules,
                      fields |-> MergeFields(bucket.fields, GetFields(rule))]]

\* bucket.AddRule(rule): a bucket holds a rule ID once
BucketAddRule(bucket, rule) ==
    IF \E i \in 1..Len(bucket.rules) : bucket.rules[i].ID = rule.ID
    THEN [err |-> "ErrDefinitionIDConflict", bucket |-> bucket]
    ELSE [err |-> "nil",
          bucket |-> [rules  |-> Append(bucket.rules, rule),
                      fields |-> MergeFields(bucket.fields, GetFields(rule))]]

(***************************************************************************)
(* RuleSet: registry of rules.                                             *)
(***************************************************************************)
\* the rule AddRule builds from a definition; its partials are not generated yet
NewRule(def) == [ID |-> def.ID, Expression |-> def.Expression, partials |-> FALSE]

\* ListRuleIDs(): the keys of rs.rules, appended one by one
RECURSIVE AppendIDs(_, _)
AppendIDs(keys, ids) ==
    IF keys = <<>> THEN ids
    ELSE AppendIDs(Tail(keys), Append(ids, Head(keys)))

ListRuleIDs(rs) == AppendIDs(KeysInOrder(DOMAIN rs.rules), <<>>)

\* GetEventTypes(): the keys of rs.eventRuleBuckets
GetEventTypes(rs) == AppendIDs(KeysInOrder(DOMAIN rs.eventRuleBuckets), <<>>)

\* the nil *RuleBucket
NilBucket == [nil |-> TRUE]

\* GetBucket(eventType); nil when there is none
GetBucket(rs, eventType) ==
    IF HasKey(rs.eventRuleBuckets, eventType) THEN rs.eventRuleBuckets[eventType]
    ELSE NilBucket

\* HasRulesForEventType(eventType)
HasRulesForEventType(rs, eventType) ==
    IF ~HasKey(rs.eventRuleBuckets, eventType) THEN FALSE
    ELSE Len(rs.eventRuleBuckets[eventType].rules) > 0

\* AddFields appending every field, known or not
AddFields_NoDedup(rsFields, new) == rsFields \o new

\* AddFields(fields): merge into rs.fields
AddFields(rsFields, new) == MergeFields(rsFields, new)

\* GetRuleEventType without the `len(eventTypes) > 1` test
GetRuleEventType_FirstOfMany(rule) ==
    LET eventTypes == GetEventTypesOfRule(rule)
    IN  IF Len(eventTypes) = 0 THEN [eventType |-> "", err |-> "ErrRuleWithoutEvent"]
        ELSE [eventType |-> eventTypes[1], err |-> "nil"]

\* GetRuleEventType(rule)
GetRuleEventType(rule) ==
    LET eventTypes == GetEventTypesOfRule(rule)
    IN  IF Len(eventTypes) = 0 THEN [eventType |-> "", err |-> "ErrRuleWithoutEvent"]
        ELSE IF Len(eventTypes) > 1
             THEN [eventType |-> "", err |-> "ErrRuleWithMultipleEvents"]
             ELSE [eventType |-> eventTypes[1], err |-> "nil"]

\* the reserved-ID loop of AddRule
IsReservedID(o, id) ==
    \E i \in 1..Len(o.ReservedRuleIDs) : o.ReservedRuleIDs[i] = id

\* the test with the wildcard taken for granted
EventTypeAllowed_Always(o, eventType) == TRUE

\* the "ignore event types not supported" test of AddRule
EventTypeAllowed(o, eventType) ==
    HasKey(o.EventTypeEnabled, Wildcard) \/ HasKey(o.EventTypeEnabled, eventType)

\* the bucket loop of AddRule over the evaluator's event types: the buckets
\* after it, and the error that stopped it
RECURSIVE AddToBuckets(_, _, _)
\* the bucket loop making the bucket of the exec events whatever the rule
AddToBuckets_ExecBucket(buckets, eventTypes, rule) ==
    IF eventTypes = <<>>
    THEN [err |-> "nil",
          buckets |-> IF HasKey(buckets, "exec") THEN buckets
                      ELSE Put(buckets, "exec", EmptyBucket)]
    ELSE LET event   == Head(eventTypes)
             created == IF HasKey(buckets, event) THEN buckets
                        ELSE Put(buckets, event, EmptyBucket)
             added   == BucketAddRule(created[event], rule)
         IN  IF added.err # "nil" THEN [err |-> added.err, buckets |-> created]
             ELSE AddToBuckets(Put(created, event, added.bucket), Tail(eventTypes), rule)

AddToBuckets(buckets, eventTypes, rule) ==
    IF eventTypes = <<>> THEN [err |-> "nil", buckets |-> buckets]
    ELSE LET event   == Head(eventTypes)
             created == IF HasKey(buckets, event) THEN buckets
                        ELSE Put(buckets, event, EmptyBucket)
             added   == BucketAddRule(created[event], rule)
         IN  IF added.err # "nil" THEN [err |-> added.err, buckets |-> created]
             ELSE AddToBuckets(Put(created, event, added.bucket), Tail(eventTypes), rule)

\* a failed AddRule that made the bucket of the open events before its checks
Rejected_EmptyBucket(rs, e) ==
    [err |-> e, rules |-> rs.rules,
     eventRuleBuckets |-> IF HasKey(rs.eventRuleBuckets, "open") THEN rs.eventRuleBuckets
                          ELSE Put(rs.eventRuleBuckets, "open", EmptyBucket),
     fields |-> rs.fields]

\* what a failed AddRule returns: nothing written
Rejected(rs, e) ==
    [err |-> e, rules |-> rs.rules, eventRuleBuckets |-> rs.eventRuleBuckets,
     fields |-> rs.fields]

\* what AddRule does once every check has passed
Loaded(rs, ruleDef, bk) ==
    IF bk.err # "nil"
    THEN [err |-> bk.err, rules |-> rs.rules,
          eventRuleBuckets |-> bk.buckets, fields |-> rs.fields]
    ELSE [err |-> "nil",
          rules |-> Put(rs.rules, ruleDef.ID, NewRule(ruleDef)),
          eventRuleBuckets |-> bk.buckets,
          fields |-> AddFields(rs.fields, GetFields(NewRule(ruleDef)))]

\* AddRule without `rs.rules[ruleDef.ID] = rule`
AddRule_NoIndex(rs, ruleDef) ==
    LET rule == NewRule(ruleDef)
        info == ExprInfo(ruleDef.Expression)
        et   == GetRuleEventType(rule)
        bk   == AddToBuckets(rs.eventRuleBuckets, GetEventTypesOfRule(rule), rule)
        ok   == Loaded(rs, ruleDef, bk)
    IN  IF IsReservedID(rs.opts, ruleDef.ID) THEN Rejected(rs, "ErrInternalIDConflict")
        ELSE IF HasKey(rs.rules, ruleDef.ID) THEN Rejected(rs, "ErrDefinitionIDConflict")
        ELSE IF ~info.parse THEN Rejected(rs, "syntax error")
        ELSE IF ~GenEvaluator(rs.macros, ruleDef.Expression)
             THEN Rejected(rs, "compilation error")
        ELSE IF et.err # "nil" THEN Rejected(rs, et.err)
        ELSE IF ~EventTypeAllowed(rs.opts, et.eventType)
             THEN Rejected(rs, "ErrEventTypeNotEnabled")
        ELSE [ok EXCEPT !.rules = rs.rules]

\* AddRule without the `rs.rules[ruleDef.ID]` existence test
AddRule_NoDupCheck(rs, ruleDef) ==
    LET rule == NewRule(ruleDef)
        info == ExprInfo(ruleDef.Expression)
        et   == GetRuleEventType(rule)
        bk   == AddToBuckets(rs.eventRuleBuckets, GetEventTypesOfRule(rule), rule)
    IN  IF IsReservedID(rs.opts, ruleDef.ID) THEN Rejected(rs, "ErrInternalIDConflict")
        ELSE IF ~info.parse THEN Rejected(rs, "syntax error")
        ELSE IF ~GenEvaluator(rs.macros, ruleDef.Expression)
             THEN Rejected(rs, "compilation error")
        ELSE IF et.err # "nil" THEN Rejected(rs, et.err)
        ELSE IF ~EventTypeAllowed(rs.opts, et.eventType)
             THEN Rejected(rs, "ErrEventTypeNotEnabled")
        ELSE Loaded(rs, ruleDef, bk)

\* AddRule with the reserved-ID loop after the expression is parsed and compiled
AddRule_ReservedLate(rs, ruleDef) ==
    LET rule == NewRule(ruleDef)
        info == ExprInfo(ruleDef.Expression)
        et   == GetRuleEventType(rule)
        bk   == AddToBuckets(rs.eventRuleBuckets, GetEventTypesOfRule(rule), rule)
    IN  IF HasKey(rs.rules, ruleDef.ID) THEN Rejected(rs, "ErrDefinitionIDConflict")
        ELSE IF ~info.parse THEN Rejected(rs, "syntax error")
        ELSE IF ~GenEvaluator(rs.macros, ruleDef.Expression)
             THEN Rejected(rs, "compilation error")
        ELSE IF IsReservedID(rs.opts, ruleDef.ID) THEN Rejected(rs, "ErrInternalIDConflict")
        ELSE IF et.err # "nil" THEN Rejected(rs, et.err)
        ELSE IF ~EventTypeAllowed(rs.opts, et.eventType)
             THEN Rejected(rs, "ErrEventTypeNotEnabled")
        ELSE Loaded(rs, ruleDef, bk)

\* AddRule(ruleDef) on the rule set rs = [opts, rules, eventRuleBuckets, fields]
AddRule(rs, ruleDef) ==
    LET rule == NewRule(ruleDef)
        info == ExprInfo(ruleDef.Expression)
        et   == GetRuleEventType(rule)
        bk   == AddToBuckets(rs.eventRuleBuckets, GetEventTypesOfRule(rule), rule)
    IN  IF IsReservedID(rs.opts, ruleDef.ID) THEN Rejected(rs, "ErrInternalIDConflict")
        ELSE IF HasKey(rs.rules, ruleDef.ID) THEN Rejected(rs, "ErrDefinitionIDConflict")
        ELSE IF ~info.parse THEN Rejected(rs, "syntax error")
        ELSE IF ~GenEvaluator(rs.macros, ruleDef.Expression)
             THEN Rejected(rs, "compilation error")
        ELSE IF et.err # "nil" THEN Rejected(rs, et.err)
        ELSE IF ~EventTypeAllowed(rs.opts, et.eventType)
             THEN Rejected(rs, "ErrEventTypeNotEnabled")
        ELSE Loaded(rs, ruleDef, bk)

(***************************************************************************)
(* generatePartials: GenPartials on every rule of every bucket, in the     *)
(* iteration order of the bucket map, stopping at the first failure.       *)
(***************************************************************************)
\* the iteration orders of a map's keys
Orders(S) == { s \in [1..Cardinality(S) -> S] : \A i, j \in 1..Cardinality(S) :
                                                    s[i] = s[j] => i = j }

\* the rules visited, in order
RECURSIVE Visit(_, _)
Visit(buckets, order) ==
    IF order = <<>> THEN <<>>
    ELSE buckets[Head(order)].rules \o Visit(buckets, Tail(order))

\* the rules whose GenPartials ran without error before the first failure
RECURSIVE Generated(_, _)
Generated(visited, done) ==
    IF visited = <<>> THEN [err |-> "nil", done |-> done]
    ELSE IF ~ExprInfo(Head(visited).Expression).partialsOK
         THEN [err |-> "ErrGenPartials", done |-> done]
         ELSE Generated(Tail(visited), done \cup {Head(visited).ID})

\* the rules on which GenPartials is called: those visited up to the first
\* failure, the failing one included
RECURSIVE Invoked(_)
Invoked(visited) ==
    IF visited = <<>> THEN {}
    ELSE IF ~ExprInfo(Head(visited).Expression).partialsOK THEN {Head(visited).ID}
         ELSE {Head(visited).ID} \cup Invoked(Tail(visited))

\* the count of GenPartials calls after a pass of generatePartials
CountGenPartials(calls, rs, order) ==
    [id \in DOMAIN calls |->
        IF id \in Invoked(Visit(rs.eventRuleBuckets, order)) /\ calls[id] < MaxGenCalls
        THEN calls[id] + 1 ELSE calls[id]]

WithPartials(rule, done) ==
    IF rule.ID \in done THEN [rule EXCEPT !.partials = TRUE] ELSE rule

\* generatePartials going through the first bucket of the iteration only
generatePartials_FirstBucket(rs, order) ==
    LET g == Generated(Visit(rs.eventRuleBuckets,
                             IF order = <<>> THEN order ELSE <<Head(order)>>), {})
    IN  [err |-> g.err,
         rules |-> [id \in DOMAIN rs.rules |-> WithPartials(rs.rules[id], g.done)],
         eventRuleBuckets |->
            [t \in DOMAIN rs.eventRuleBuckets |->
                [rules  |-> [i \in 1..Len(rs.eventRuleBuckets[t].rules) |->
                                WithPartials(rs.eventRuleBuckets[t].rules[i], g.done)],
                 fields |-> rs.eventRuleBuckets[t].fields]]]

\* generatePartials(): the error returned and the rules with their partials
generatePartials(rs, order) ==
    LET g == Generated(Visit(rs.eventRuleBuckets, order), {})
    IN  [err |-> g.err,
         rules |-> [id \in DOMAIN rs.rules |-> WithPartials(rs.rules[id], g.done)],
         eventRuleBuckets |->
            [t \in DOMAIN rs.eventRuleBuckets |->
                [rules  |-> [i \in 1..Len(rs.eventRuleBuckets[t].rules) |->
                                WithPartials(rs.eventRuleBuckets[t].rules[i], g.done)],
                 fields |-> rs.eventRuleBuckets[t].fields]]]

(***************************************************************************)
(* Listener notification.                                                  *)
(***************************************************************************)
\* NotifyRuleMatch(rule, event): one RuleMatch callback per entry of rs.listeners
NotifyRuleMatch(ls, rule) ==
    [i \in 1..Len(ls) |->
        [listener |-> ls[i], kind |-> "RuleMatch", rule |-> rule.ID,
         field |-> "", eventType |-> ""]]

\* NotifyDiscarderFound(event, field, eventType)
NotifyDiscarderFound(ls, field, eventType) ==
    [i \in 1..Len(ls) |->
        [listener |-> ls[i], kind |-> "EventDiscarderFound", rule |-> "",
         field |-> field, eventType |-> eventType]]

(***************************************************************************)
(* IsDiscarder and Evaluate.                                               *)
(***************************************************************************)
\* IsDiscarderLoop going on to the next rule when a partial evaluation fails
RECURSIVE IsDiscarderLoop_SkipErr(_, _, _)
IsDiscarderLoop_SkipErr(brules, event, field) ==
    IF brules = <<>> THEN [result |-> TRUE, err |-> "nil"]
    ELSE LET p == PartialEval(Head(brules), event, field)
         IN  IF p.err = "nil" /\ p.isTrue THEN [result |-> FALSE, err |-> p.err]
             ELSE IsDiscarderLoop_SkipErr(Tail(brules), event, field)

\* the loop of IsDiscarder over bucket.rules
RECURSIVE IsDiscarderLoop(_, _, _)
IsDiscarderLoop(brules, event, field) ==
    IF brules = <<>> THEN [result |-> TRUE, err |-> "nil"]
    ELSE LET p == PartialEval(Head(brules), event, field)
         IN  IF p.err # "nil" \/ p.isTrue THEN [result |-> FALSE, err |-> p.err]
             ELSE IsDiscarderLoop(Tail(brules), event, field)

\* IsDiscarder looking the bucket up by event.GetType() instead of the field's event type
IsDiscarder_ByEventType(rs, event, field) ==
    LET et == GetFieldEventType(event, field)
    IN  IF et.err # "nil" THEN [result |-> FALSE, err |-> et.err]
        ELSE IF ~HasKey(rs.eventRuleBuckets, event.type)
             THEN [result |-> FALSE, err |-> "ErrNoEventTypeBucket"]
             ELSE IsDiscarderLoop(rs.eventRuleBuckets[event.type].rules, event, field)

\* IsDiscarder(event, field)
IsDiscarder(rs, event, field) ==
    LET et == GetFieldEventType(event, field)
    IN  IF et.err # "nil" THEN [result |-> FALSE, err |-> et.err]
        ELSE IF ~HasKey(rs.eventRuleBuckets, et.eventType)
             THEN [result |-> FALSE, err |-> "ErrNoEventTypeBucket"]
             ELSE IsDiscarderLoop(rs.eventRuleBuckets[et.eventType].rules, event, field)

\* MatchLoop with `result = Eval(ctx)` in place of `result = true` on a match
RECURSIVE MatchLoop_Overwrite(_, _, _, _)
MatchLoop_Overwrite(brules, ls, event, acc) ==
    IF brules = <<>> THEN acc
    ELSE MatchLoop_Overwrite(Tail(brules), ls, event,
                   IF Eval(Head(brules), event)
                   THEN [result   |-> TRUE,
                         notified |-> acc.notified \o NotifyRuleMatch(ls, Head(brules))]
                   ELSE [result |-> FALSE, notified |-> acc.notified])

\* MatchLoop leaving the loop at the first rule that matches
RECURSIVE MatchLoop_StopAtFirst(_, _, _, _)
MatchLoop_StopAtFirst(brules, ls, event, acc) ==
    IF brules = <<>> THEN acc
    ELSE IF Eval(Head(brules), event)
         THEN [result   |-> TRUE,
               notified |-> acc.notified \o NotifyRuleMatch(ls, Head(brules))]
         ELSE MatchLoop_StopAtFirst(Tail(brules), ls, event, acc)

\* the first loop of Evaluate: every rule of the bucket is evaluated
RECURSIVE MatchLoop(_, _, _, _)
MatchLoop(brules, ls, event, acc) ==
    IF brules = <<>> THEN acc
    ELSE MatchLoop(Tail(brules), ls, event,
                   IF Eval(Head(brules), event)
                   THEN [result   |-> TRUE,
                         notified |-> acc.notified \o NotifyRuleMatch(ls, Head(brules))]
                   ELSE acc)

\* FieldIsDiscarder testing `isTrue` alone, the error of PartialEval dropped
RECURSIVE FieldIsDiscarder_IgnoreErr(_, _, _)
FieldIsDiscarder_IgnoreErr(brules, event, field) ==
    IF brules = <<>> THEN TRUE
    ELSE IF PartialEval(Head(brules), event, field).isTrue THEN FALSE
         ELSE FieldIsDiscarder_IgnoreErr(Tail(brules), event, field)

\* the inner loop of the discarder search: isDiscarder for one field
RECURSIVE FieldIsDiscarder(_, _, _)
FieldIsDiscarder(brules, event, field) ==
    IF brules = <<>> THEN TRUE
    ELSE LET p == PartialEval(Head(brules), event, field)
         IN  IF p.err # "nil" \/ p.isTrue THEN FALSE
             ELSE FieldIsDiscarder(Tail(brules), event, field)

\* SkippedField with the supported-discarders map never looked at
SkippedField_Never(o, field) == FALSE

\* the test that skips a field the supported-discarders map does not hold
SkippedField(o, field) ==
    ~o.SupportedDiscarders.isNil /\ ~HasKey(o.SupportedDiscarders.m, field)

\* the inner loop of the discarder search left on an error of PartialEval
RECURSIVE ProbeError(_, _, _)
ProbeError(brules, event, field) ==
    IF brules = <<>> THEN FALSE
    ELSE LET p == PartialEval(Head(brules), event, field)
         IN  IF p.err # "nil" THEN TRUE
             ELSE IF p.isTrue THEN FALSE
             ELSE ProbeError(Tail(brules), event, field)

\* DiscarderLoop giving the search up at the first field whose probing fails
RECURSIVE DiscarderLoop_StopAtErr(_, _, _, _, _, _)
DiscarderLoop_StopAtErr(bfields, bucket, o, ls, event, acc) ==
    IF bfields = <<>> THEN acc
    ELSE LET field == Head(bfields)
         IN  IF SkippedField(o, field)
             THEN DiscarderLoop_StopAtErr(Tail(bfields), bucket, o, ls, event, acc)
             ELSE IF ProbeError(bucket.rules, event, field)
             THEN [notified |-> acc.notified, probed |-> Append(acc.probed, field)]
             ELSE DiscarderLoop_StopAtErr(Tail(bfields), bucket, o, ls, event,
                    IF FieldIsDiscarder(bucket.rules, event, field)
                    THEN [notified |-> acc.notified
                                         \o NotifyDiscarderFound(ls, field, event.type),
                          probed   |-> Append(acc.probed, field)]
                    ELSE [notified |-> acc.notified,
                          probed   |-> Append(acc.probed, field)])

\* the second loop of Evaluate, over bucket.fields: the callbacks made and the
\* fields whose partial evaluators were run, in order
RECURSIVE DiscarderLoop(_, _, _, _, _, _)
DiscarderLoop(bfields, bucket, o, ls, event, acc) ==
    IF bfields = <<>> THEN acc
    ELSE LET field == Head(bfields)
         IN  DiscarderLoop(Tail(bfields), bucket, o, ls, event,
                IF SkippedField(o, field) THEN acc
                ELSE IF FieldIsDiscarder(bucket.rules, event, field)
                     THEN [notified |-> acc.notified
                                          \o NotifyDiscarderFound(ls, field, event.type),
                           probed   |-> Append(acc.probed, field)]
                     ELSE [notified |-> acc.notified,
                           probed   |-> Append(acc.probed, field)])

\* Evaluate looking for discarders whether or not a rule matched
Evaluate_AlwaysProbes(rs, ls, event) ==
    LET eventType == event.type
    IN  IF ~HasKey(rs.eventRuleBuckets, eventType)
        THEN [result |-> FALSE, notified |-> <<>>, probed |-> <<>>]
        ELSE LET bucket == rs.eventRuleBuckets[eventType]
                 m == MatchLoop(bucket.rules, ls, event,
                                [result |-> FALSE, notified |-> <<>>])
                 d == DiscarderLoop(bucket.fields, bucket, rs.opts, ls, event,
                                    [notified |-> m.notified, probed |-> <<>>])
             IN  [result |-> m.result, notified |-> d.notified, probed |-> d.probed]

\* Evaluate(event): the boolean returned, the callbacks made and the fields
\* probed for discarders, in order
Evaluate(rs, ls, event) ==
    LET eventType == event.type
    IN  IF ~HasKey(rs.eventRuleBuckets, eventType)
        THEN [result |-> FALSE, notified |-> <<>>, probed |-> <<>>]
        ELSE LET bucket == rs.eventRuleBuckets[eventType]
                 m == MatchLoop(bucket.rules, ls, event,
                                [result |-> FALSE, notified |-> <<>>])
             IN  IF ~m.result
                 THEN LET d == DiscarderLoop(bucket.fields, bucket, rs.opts, ls, event,
                                             [notified |-> m.notified, probed |-> <<>>])
                      IN  [result |-> FALSE, notified |-> d.notified,
                           probed |-> d.probed]
                 ELSE [result |-> TRUE, notified |-> m.notified, probed |-> <<>>]

(***************************************************************************)
(* RuleSet: registry of macros.  The macro table is rs.opts.Macros, which  *)
(* the evaluator reads when it compiles a later macro.                     *)
(***************************************************************************)
MacroIDs == {"m1", "m2"}

\* the macro expressions: "fa" compiles alone, "usem1" refers to the macro m1
MacroExpressions == {"fa", "usem1", "syn", "comp"}

\* MacroDefinition{ID, Expression}: the definitions of the policies loaded
MacroDefinitions ==
    { d \in [ID : MacroIDs, Expression : MacroExpressions] :
        \/ d.ID = "m1" /\ d.Expression \in {"fa", "comp"}
        \/ d.ID = "m2" /\ d.Expression \in {"usem1", "syn"} }

\* the batches handed to AddMacros
MacroBatches == UNION { [1..n -> MacroDefinitions] : n \in 0..MaxBatch }

\* macro.Parse()
MacroParse(e) == IF e = "usem1" THEN TRUE ELSE ExprInfo(e).parse

\* GenEvaluator resolving a macro whether or not the table holds it
MacroGenEvaluator_AnyMacro(ms, e) ==
    IF e = "usem1" THEN TRUE ELSE ExprInfo(e).compile

\* macro.GenEvaluator(rs.model, &rs.opts.Opts): a macro named in the expression
\* must be in the table already
MacroGenEvaluator(ms, e) ==
    IF e = "usem1" THEN HasKey(ms, "m1") ELSE ExprInfo(e).compile

\* the macro-load error AddMacro returns for a definition
ErrMacroLoad(def, e) == [Definition |-> def, Err |-> e]

\* AddMacro registering the macro before it is parsed and compiled
AddMacro_RegistersFirst(ms, macroDef) ==
    IF HasKey(ms, macroDef.ID)
    THEN [macros |-> ms, err |-> "multiple definition with the same ID"]
    ELSE IF ~MacroParse(macroDef.Expression)
    THEN [macros |-> Put(ms, macroDef.ID, macroDef.Expression), err |-> "syntax error"]
    ELSE IF ~MacroGenEvaluator(ms, macroDef.Expression)
    THEN [macros |-> Put(ms, macroDef.ID, macroDef.Expression),
          err |-> "compilation error"]
    ELSE [macros |-> Put(ms, macroDef.ID, macroDef.Expression), err |-> "nil"]

\* AddMacro(macroDef): the macro table afterwards and the error returned
AddMacro(ms, macroDef) ==
    IF HasKey(ms, macroDef.ID)
    THEN [macros |-> ms, err |-> "multiple definition with the same ID"]
    ELSE IF ~MacroParse(macroDef.Expression)
    THEN [macros |-> ms, err |-> "syntax error"]
    ELSE IF ~MacroGenEvaluator(ms, macroDef.Expression)
    THEN [macros |-> ms, err |-> "compilation error"]
    ELSE [macros |-> Put(ms, macroDef.ID, macroDef.Expression), err |-> "nil"]

\* AddMacros(macros): every definition goes through AddMacro, the failures are
\* appended to the multierror
RECURSIVE AddMacros(_, _, _)
AddMacros(ms, defs, res) ==
    IF defs = <<>> THEN [macros |-> ms, result |-> res]
    ELSE LET r == AddMacro(ms, Head(defs))
         IN  AddMacros(r.macros, Tail(defs),
                       IF r.err # "nil" THEN Append(res, ErrMacroLoad(Head(defs), r.err))
                       ELSE res)

\* ListMacroIDs()
ListMacroIDs(ms) == AppendIDs(KeysInOrder(DOMAIN ms), <<>>)

(***************************************************************************)
(* The context pool (eval.ContextPool, modelled) and the goroutines that   *)
(* evaluate.  A context is bound to an event by Get and unbound by Put;    *)
(* the evaluators read the event through the context.                      *)
(***************************************************************************)
Threads == {"t1", "t2"}

\* the contexts the pool can hand out: one per goroutine is enough
Contexts == {"c1", "c2"}

NoContext == "none"

\* a context bound to nothing
NoEvent == [type |-> "", vals |-> [f \in Fields |-> ""]]

\* eval.NewContextPool()
NewContextPool == [out |-> {}, object |-> [c \in Contexts |-> NoEvent]]

\* a pool that hands out any context, checked out or not
Available_All(p) == Contexts

\* the contexts Get can return: those that are not checked out
Available(p) == Contexts \ p.out

\* rs.pool.Get(event.GetPointer()) returning the context c
PoolGet(p, c, event) ==
    [out |-> p.out \cup {c}, object |-> [p.object EXCEPT ![c] = event]]

\* rs.pool.Put(ctx)
PoolPut(p, c) ==
    [out |-> p.out \ {c}, object |-> [p.object EXCEPT ![c] = NoEvent]]

\* the event as the evaluators of a call see it: its type comes from the event
\* (event.GetType()), its field values are read through the context
InContext(p, c, event) == [type |-> event.type, vals |-> p.object[c].vals]

\* a goroutine that has made no call yet; gets and puts count the Get and Put
\* of its current call, overlap tells that another call held a context when
\* this one got or released its own
NewThread ==
    [pc |-> "idle", op |-> "none", event |-> NoEvent, field |-> "", ctx |-> NoContext,
     gets |-> 0, puts |-> 0, result |-> FALSE, err |-> "nil",
     notified |-> <<>>, probed |-> <<>>, overlap |-> FALSE]

\* another goroutine is between its Get and its Put
OthersHolding(ths, t) == \E u \in Threads \ {t} : ths[u].pc = "holding"

(***************************************************************************)
(* A second RuleSet.  NewRuleSet keeps the pointer to the options it is    *)
(* given, and the macro table is a field of the options, made by           *)
(* NewOptsWithParams.                                                      *)
(***************************************************************************)
\* no second RuleSet has been made
NoRuleSet == [built |-> FALSE, sameOpts |-> FALSE, macros |-> << >>, own |-> {}]

\* NewRuleSet(model, eventCtor, opts): with the options of the first RuleSet,
\* or with options fresh from NewOptsWithParams, whose macro table is empty.
\* NewRuleSet keeps the pointer to the options and makes no macro table of
\* theirs; own is the set of macros added through this RuleSet
NewRuleSet(sameOpts) ==
    [built |-> TRUE, sameOpts |-> sameOpts, macros |-> EmptyMap, own |-> {}]

\* rs.opts.Macros of the second RuleSet, given that of the first
MacrosOf(rs2, ms) == IF rs2.sameOpts THEN ms ELSE rs2.macros

(***************************************************************************)
(* RuntimeSecurityAgent: Start, Stop and the event-listener goroutine.     *)
(***************************************************************************)
\* the agent NewRuntimeSecurityAgent returns: running holds no value, the wait
\* group is at zero, the connection is open; listener and stop are the program
\* counters of the listener goroutine and of Stop
NewRuntimeSecurityAgent ==
    [running |-> "unset", wg |-> 0, connOpen |-> TRUE, started |-> FALSE,
     listener |-> "none", stop |-> "none", dispatched |-> 0, afterStop |-> FALSE]

(***************************************************************************)
(* The state machine.                                                      *)
(***************************************************************************)
\* the rule set as the operators above read it
RS == [opts |-> opts, rules |-> rules, eventRuleBuckets |-> eventRuleBuckets,
       fields |-> fields, macros |-> macros]

\* NewRuleSet(model, eventCtor, opts)
Init ==
    /\ opts \in OptsChoices
    /\ rules = EmptyMap
    /\ eventRuleBuckets = EmptyMap
    /\ fields = <<>>
    /\ listeners = <<>>
    /\ pc = "idle"
    /\ result = <<>>
    /\ nDefs = 0
    /\ succeeded = {}
    /\ notified = <<>>
    /\ last = [op |-> "NewRuleSet"]
    /\ macros = EmptyMap
    /\ pool = NewContextPool
    /\ threads = [t \in Threads |-> NewThread]
    /\ genCalls = [id \in RuleIDs |-> 0]
    /\ second = NoRuleSet
    /\ agent = NewRuntimeSecurityAgent

\* the rule-load error AddRule returns for a definition
ErrRuleLoad(def, e) == [Definition |-> def, Err |-> e]

\* Collect keeping the first error of the batch only
Collect_FirstOnly(res, def, e) ==
    IF e # "nil" /\ res = <<>> THEN Append(res, ErrRuleLoad(def, e)) ELSE res

\* the body of the loop of AddRules: multierror.Append(result, err) when AddRule fails
Collect(res, def, e) ==
    IF e # "nil" THEN Append(res, ErrRuleLoad(def, e)) ELSE res

\* the entry AddRules appends when generatePartials fails
ErrPartials ==
    [Definition |-> Def("", ""), Err |-> "couldn't generate partials for rule"]

\* a call of AddRule from outside a batch
AddRuleCall(def) ==
    /\ pc = "idle"
    /\ LET r == AddRule(RS, def)
       IN  /\ rules' = r.rules
           /\ eventRuleBuckets' = r.eventRuleBuckets
           /\ fields' = r.fields
           /\ succeeded' = IF r.err = "nil" THEN succeeded \cup {def.ID} ELSE succeeded
           /\ last' = [op |-> "AddRule", def |-> def, err |-> r.err, inBatch |-> FALSE]
    /\ notified' = <<>>
    /\ UNCHANGED <<opts, listeners, pc, result, nDefs, macros, pool, threads,
                   genCalls, second, agent>>

\* AddRules(rules) is entered: result is nil
AddRulesBegin ==
    /\ pc = "idle"
    /\ pc' = "AddRules"
    /\ result' = <<>>
    /\ nDefs' = 0
    /\ notified' = <<>>
    /\ last' = [op |-> "AddRulesBegin"]
    /\ UNCHANGED <<opts, rules, eventRuleBuckets, fields, listeners, succeeded, macros, pool, threads,
                   genCalls, second, agent>>

\* one turn of the loop of AddRules: the next definition of the batch
AddRulesStep(def) ==
    /\ pc = "AddRules"
    /\ nDefs < MaxBatch
    /\ LET r == AddRule(RS, def)
       IN  /\ rules' = r.rules
           /\ eventRuleBuckets' = r.eventRuleBuckets
           /\ fields' = r.fields
           /\ succeeded' = IF r.err = "nil" THEN succeeded \cup {def.ID} ELSE succeeded
           /\ result' = Collect(result, def, r.err)
           /\ last' = [op |-> "AddRule", def |-> def, err |-> r.err, inBatch |-> TRUE]
    /\ nDefs' = nDefs + 1
    /\ UNCHANGED <<opts, listeners, pc, notified, macros, pool, threads,
                   genCalls, second, agent>>

\* the end of AddRules: the partials are generated and the multierror returned
AddRulesEnd(order) ==
    /\ pc = "AddRules"
    /\ LET g == generatePartials(RS, order)
       IN  /\ rules' = g.rules
           /\ eventRuleBuckets' = g.eventRuleBuckets
           /\ last' = [op |-> "AddRules", n |-> nDefs,
                       result |-> IF g.err # "nil" THEN Append(result, ErrPartials)
                                  ELSE result]
    /\ genCalls' = CountGenPartials(genCalls, RS, order)
    /\ pc' = "idle"
    /\ result' = <<>>
    /\ nDefs' = 0
    /\ UNCHANGED <<opts, fields, listeners, succeeded, notified, macros, pool, threads,
                   second, agent>>

\* AddListener that keeps a listener once
AddListener_NoDuplicate(l) ==
    /\ pc = "idle"
    /\ Len(listeners) < MaxListeners
    /\ listeners' = IF Contains(listeners, l) THEN listeners ELSE Append(listeners, l)
    /\ notified' = <<>>
    /\ last' = [op |-> "AddListener", listener |-> l]
    /\ UNCHANGED <<opts, rules, eventRuleBuckets, fields, pc, result, nDefs, succeeded,
                   macros, pool, threads,
                   genCalls, second, agent>>

\* AddListener(listener)
AddListener(l) ==
    /\ pc = "idle"
    /\ Len(listeners) < MaxListeners
    /\ listeners' = Append(listeners, l)
    /\ notified' = <<>>
    /\ last' = [op |-> "AddListener", listener |-> l]
    /\ UNCHANGED <<opts, rules, eventRuleBuckets, fields, pc, result, nDefs, succeeded, macros, pool, threads,
                   genCalls, second, agent>>

\* Evaluate that makes the bucket of the event's type when there is none
EvaluateCall_CreatesBucket(event) ==
    /\ pc = "idle"
    /\ LET r == Evaluate(RS, listeners, event)
       IN  /\ notified' = r.notified
           /\ last' = [op |-> "Evaluate", event |-> event, result |-> r.result,
                       probed |-> r.probed,
                       repeated |-> last.op = "Evaluate" /\ last.event = event]
    /\ eventRuleBuckets' = IF HasKey(eventRuleBuckets, event.type) THEN eventRuleBuckets
                           ELSE Put(eventRuleBuckets, event.type, EmptyBucket)
    /\ UNCHANGED <<opts, rules, fields, listeners, pc, result, nDefs,
                   succeeded, macros, pool, threads,
                   genCalls, second, agent>>

\* a call of Evaluate(event); `repeated` tells that the call before was an
\* Evaluate of the same event
EvaluateCall(event) ==
    /\ pc = "idle"
    /\ LET r == Evaluate(RS, listeners, event)
       IN  /\ notified' = r.notified
           /\ last' = [op |-> "Evaluate", event |-> event, result |-> r.result,
                       probed |-> r.probed,
                       repeated |-> last.op = "Evaluate" /\ last.event = event]
    /\ UNCHANGED <<opts, rules, eventRuleBuckets, fields, listeners, pc, result, nDefs,
                   succeeded, macros, pool, threads,
                   genCalls, second, agent>>

\* a call of IsDiscarder(event, field)
IsDiscarderCall(event, field) ==
    /\ pc = "idle"
    /\ LET r == IsDiscarder(RS, event, field)
       IN  last' = [op |-> "IsDiscarder", event |-> event, field |-> field,
                    result |-> r.result, err |-> r.err]
    /\ notified' = <<>>
    /\ UNCHANGED <<opts, rules, eventRuleBuckets, fields, listeners, pc, result, nDefs,
                   succeeded, macros, pool, threads,
                   genCalls, second, agent>>

\* bucket.GetApprovers(event, fieldCaps) (modelled): the rules of the bucket
\* are evaluated partially, which fails on a rule without partials; the
\* approvers are the comparisons of the rules on the fields the capabilities
\* cover
BucketGetApprovers(bucket, fieldCaps) ==
    IF \E i \in 1..Len(bucket.rules) : ~bucket.rules[i].partials
    THEN [approvers |-> {}, err |-> "ErrFieldNotFound"]
    ELSE [approvers |->
            { a \in UNION { Range(ExprInfo(bucket.rules[i].Expression).atoms)
                              : i \in 1..Len(bucket.rules) } : a.f \in fieldCaps },
          err |-> "nil"]

\* GetEventApprovers answering a missing bucket with no approvers and no error
GetEventApprovers_NoError(rs, eventType, fieldCaps) ==
    IF ~HasKey(rs.eventRuleBuckets, eventType)
    THEN [approvers |-> {}, err |-> "nil"]
    ELSE BucketGetApprovers(rs.eventRuleBuckets[eventType], fieldCaps)

\* GetEventApprovers(eventType, fieldCaps)
GetEventApprovers(rs, eventType, fieldCaps) ==
    IF ~HasKey(rs.eventRuleBuckets, eventType)
    THEN [approvers |-> {}, err |-> "ErrNoEventTypeBucket"]
    ELSE BucketGetApprovers(rs.eventRuleBuckets[eventType], fieldCaps)

\* the field capabilities handed to the approver queries
FieldCapabilities == {{"open.filename"}, Fields}

\* a call of GetEventApprovers(eventType, fieldCaps)
GetEventApproversCall(eventType, fieldCaps) ==
    /\ pc = "idle"
    /\ LET r == GetEventApprovers(RS, eventType, fieldCaps)
       IN  last' = [op |-> "GetEventApprovers", eventType |-> eventType,
                    approvers |-> r.approvers, err |-> r.err]
    /\ notified' = <<>>
    /\ UNCHANGED <<opts, rules, eventRuleBuckets, fields, listeners, pc, result, nDefs,
                   succeeded, macros, pool, threads,
                   genCalls, second, agent>>

\* the capabilities handed to GetApprovers: a map from some event types to
\* their field capabilities
CapabilityMaps == { [t \in ts |-> Fields] : ts \in SUBSET EventTypes }

\* the event types GetApprovers asks for: those of the buckets for which
\* capabilities are supplied
Asked(rs, fieldCaps) == { t \in Range(GetEventTypes(rs)) : HasKey(fieldCaps, t) }

\* GetApprovers giving up at the first event type whose resolution fails
GetApprovers_AbortOnError(rs, fieldCaps) ==
    LET asked == Asked(rs, fieldCaps)
        failed == { t \in asked : GetEventApprovers(rs, t, fieldCaps[t]).err # "nil" }
    IN  IF failed # {}
        THEN [approvers |-> EmptyMap, err |-> "ErrFieldNotFound"]
        ELSE [approvers |-> [t \in asked |-> GetEventApprovers(rs, t, fieldCaps[t]).approvers],
              err |-> "nil"]

\* GetApprovers(fieldCaps): the event types whose resolution fails are passed
\* over, the error returned is always nil
GetApprovers(rs, fieldCaps) ==
    LET asked == Asked(rs, fieldCaps)
        resolved == { t \in asked : GetEventApprovers(rs, t, fieldCaps[t]).err = "nil" }
    IN  [approvers |-> [t \in resolved |-> GetEventApprovers(rs, t, fieldCaps[t]).approvers],
         err |-> "nil"]

\* a call of GetApprovers(fieldCaps)
GetApproversCall(fieldCaps) ==
    /\ pc = "idle"
    /\ LET r == GetApprovers(RS, fieldCaps)
       IN  last' = [op |-> "GetApprovers", fieldCaps |-> fieldCaps,
                    approvers |-> r.approvers, err |-> r.err]
    /\ notified' = <<>>
    /\ UNCHANGED <<opts, rules, eventRuleBuckets, fields, listeners, pc, result, nDefs,
                   succeeded, macros, pool, threads,
                   genCalls, second, agent>>

\* a call of AddMacro(macroDef)
AddMacroCall(macroDef) ==
    /\ pc = "idle"
    /\ LET r == AddMacro(macros, macroDef)
       IN  /\ macros' = r.macros
           /\ last' = [op |-> "AddMacro", def |-> macroDef, err |-> r.err]
    /\ notified' = <<>>
    /\ UNCHANGED <<opts, rules, eventRuleBuckets, fields, listeners, pc, result, nDefs,
                   succeeded, pool, threads,
                   genCalls, second, agent>>

\* a call of AddMacros(macros); `before` is the macro table the call found
AddMacrosCall(defs) ==
    /\ pc = "idle"
    /\ LET r == AddMacros(macros, defs, <<>>)
       IN  /\ macros' = r.macros
           /\ last' = [op |-> "AddMacros", defs |-> defs, result |-> r.result,
                       before |-> macros]
    /\ notified' = <<>>
    /\ UNCHANGED <<opts, rules, eventRuleBuckets, fields, listeners, pc, result, nDefs,
                   succeeded, pool, threads,
                   genCalls, second, agent>>

\* NewRuleSet is called a second time, as on a reload of the policies
NewRuleSetCall(sameOpts) ==
    /\ pc = "idle"
    /\ ~second.built
    /\ second' = NewRuleSet(sameOpts)
    /\ last' = [op |-> "NewRuleSet", sameOpts |-> sameOpts]
    /\ notified' = <<>>
    /\ UNCHANGED <<opts, rules, eventRuleBuckets, fields, listeners, pc, result, nDefs,
                   succeeded, macros, pool, threads, genCalls, agent>>

\* a call of AddMacro(macroDef) on the second RuleSet: it reads and writes
\* the macro table of the options the RuleSet was built with
AddMacroSecondCall(macroDef) ==
    /\ pc = "idle"
    /\ second.built
    /\ LET r   == AddMacro(MacrosOf(second, macros), macroDef)
           own == IF r.err = "nil" THEN second.own \cup {macroDef.ID} ELSE second.own
       IN  /\ macros' = IF second.sameOpts THEN r.macros ELSE macros
           /\ second' = IF second.sameOpts THEN [second EXCEPT !.own = own]
                         ELSE [second EXCEPT !.macros = r.macros, !.own = own]
           /\ last' = [op |-> "AddMacroSecond", def |-> macroDef, err |-> r.err]
    /\ notified' = <<>>
    /\ UNCHANGED <<opts, rules, eventRuleBuckets, fields, listeners, pc, result, nDefs,
                   succeeded, pool, threads, genCalls, agent>>

\* a reload: macros are added to the RuleSet in use, a second RuleSet is made
\* and macros are added to it
NextReload ==
    \/ \E macroDef \in MacroDefinitions : AddMacroCall(macroDef)
    \/ \E sameOpts \in BOOLEAN : NewRuleSetCall(sameOpts)
    \/ \E macroDef \in MacroDefinitions : AddMacroSecondCall(macroDef)

SpecReload == Init /\ [][NextReload]_vars

\* a step of Start, of Stop or of the listener goroutine: it writes the
\* agent and nothing of the RuleSet
AgentStep(a) ==
    /\ agent' = a
    /\ UNCHANGED <<opts, rules, eventRuleBuckets, fields, listeners, pc, result, nDefs,
                   succeeded, notified, last, macros, pool, threads, genCalls, second>>

\* Start(): rsa.cancel is set and the listener goroutine is spawned; the
\* goroutine has not run yet
Start ==
    /\ ~agent.started
    /\ AgentStep([agent EXCEPT !.started = TRUE, !.listener = "add"])

\* Stop(): rsa.cancel()
StopCancel ==
    /\ agent.started
    /\ agent.stop = "none"
    /\ AgentStep([agent EXCEPT !.stop = "store"])

\* Stop(): rsa.running.Store(false)
StopStore ==
    /\ agent.stop = "store"
    /\ AgentStep([agent EXCEPT !.running = "false", !.stop = "wait"])

\* Stop(): rsa.wg.Wait() returns when the counter is zero
StopWait ==
    /\ agent.stop = "wait"
    /\ agent.wg = 0
    /\ AgentStep([agent EXCEPT !.stop = "close"])

\* Stop(): rsa.conn.Close(), and Stop returns
StopClose ==
    /\ agent.stop = "close"
    /\ AgentStep([agent EXCEPT !.connOpen = FALSE, !.stop = "returned"])

\* StartEventListener(): rsa.wg.Add(1), with wg.Done deferred
ListenerAdd ==
    /\ agent.listener = "add"
    /\ AgentStep([agent EXCEPT !.wg = @ + 1, !.listener = "store"])

\* StartEventListener(): rsa.running.Store(true)
ListenerStore ==
    /\ agent.listener = "store"
    /\ AgentStep([agent EXCEPT !.running = "true", !.listener = "test"])

\* StartEventListener(): `for rsa.running.Load() == true`; when the loop is
\* left the function returns and the deferred wg.Done runs
ListenerLoopTest ==
    /\ agent.listener = "test"
    /\ AgentStep(IF agent.running = "true"
                 THEN [agent EXCEPT !.listener = "getEvents"]
                 ELSE [agent EXCEPT !.wg = @ - 1, !.listener = "done"])

\* StartEventListener(): apiClient.GetEvents; on an error the goroutine sleeps
\* two seconds and tests the loop condition again.  GetEvents gives a stream
\* only on an open connection
ListenerGetEvents(ok) ==
    /\ agent.listener = "getEvents"
    /\ ok => agent.connOpen
    /\ AgentStep([agent EXCEPT !.listener = IF ok THEN "recv" ELSE "test"])

\* StartEventListener(): stream.Recv(); a message is dispatched and the next
\* one awaited, the end of the stream leads back to the loop condition.  A
\* closed connection delivers no message
ListenerRecv(received) ==
    /\ agent.listener = "recv"
    /\ received => agent.connOpen /\ agent.dispatched < MaxDispatched
    /\ AgentStep(IF received
                 THEN [agent EXCEPT !.dispatched = @ + 1,
                                    !.afterStop = @ \/ agent.stop = "returned"]
                 ELSE [agent EXCEPT !.listener = "test"])

\* Start, Stop and the listener goroutine, interleaved in every way
NextAgent ==
    \/ Start
    \/ StopCancel
    \/ StopStore
    \/ StopWait
    \/ StopClose
    \/ ListenerAdd
    \/ ListenerStore
    \/ ListenerLoopTest
    \/ \E ok \in BOOLEAN : ListenerGetEvents(ok)
    \/ \E received \in BOOLEAN : ListenerRecv(received)

SpecAgent == Init /\ [][NextAgent]_vars

\* the rules loaded after the macros: one that refers to the macro m1, rules
\* that refer to none, and one for each way a rule is rejected
MacroRuleDefinitions ==
    {Def("r1", "rm1"), Def("r1", "multi"), Def("r2", "fa"), Def("r2", "xa"),
     Def("r2", "comp"), Def("r2", "syn"), Def("r2", "noev"), Def("rsv", "fa")}

\* the macros and the rules of a policy are added, the macros one by one and
\* in batches
NextMacros ==
    \/ \E macroDef \in MacroDefinitions : AddMacroCall(macroDef)
    \/ \E defs \in MacroBatches : AddMacrosCall(defs)
    \/ \E def \in MacroRuleDefinitions : AddRuleCall(def)

SpecMacros == Init /\ [][NextMacros]_vars

\* the variables Evaluate and IsDiscarder leave alone
ruleSetVars == <<opts, rules, eventRuleBuckets, fields, listeners, pc, result, nDefs,
                 succeeded, notified, last, macros, genCalls, second, agent>>

\* a goroutine enters Evaluate(event): ctx := rs.pool.Get(event.GetPointer())
EvaluateEnter(t, event) ==
    /\ pc = "idle"
    /\ threads[t].pc = "idle"
    /\ \E c \in Available(pool) :
          /\ pool' = PoolGet(pool, c, event)
          /\ threads' = [threads EXCEPT ![t] =
                            [NewThread EXCEPT !.pc = "holding", !.op = "Evaluate",
                                              !.event = event, !.ctx = c, !.gets = 1,
                                              !.overlap = OthersHolding(threads, t)]]
    /\ UNCHANGED ruleSetVars

\* Evaluate that returns without Put when the event type has no bucket
EvaluateReturn_NoPutWithoutBucket(t) ==
    /\ threads[t].pc = "holding"
    /\ threads[t].op = "Evaluate"
    /\ LET th == threads[t]
           r  == Evaluate(RS, listeners, InContext(pool, th.ctx, th.event))
           noBucket == ~HasKey(eventRuleBuckets, th.event.type)
       IN  /\ pool' = IF noBucket THEN pool ELSE PoolPut(pool, th.ctx)
           /\ threads' = [threads EXCEPT ![t] =
                            [th EXCEPT !.pc = "idle", !.ctx = NoContext,
                                       !.overlap = th.overlap \/ OthersHolding(threads, t),
                                       !.puts = IF noBucket THEN th.puts ELSE th.puts + 1,
                                       !.result = r.result, !.notified = r.notified,
                                       !.probed = r.probed]]
    /\ UNCHANGED ruleSetVars

\* the rest of Evaluate: the two loops run on the context, the deferred Put
\* releases it, the boolean is returned
EvaluateReturn(t) ==
    /\ threads[t].pc = "holding"
    /\ threads[t].op = "Evaluate"
    /\ LET th == threads[t]
           r  == Evaluate(RS, listeners, InContext(pool, th.ctx, th.event))
       IN  /\ pool' = PoolPut(pool, th.ctx)
           /\ threads' = [threads EXCEPT ![t] =
                            [th EXCEPT !.pc = "idle", !.ctx = NoContext,
                                       !.overlap = th.overlap \/ OthersHolding(threads, t),
                                       !.puts = th.puts + 1,
                                       !.result = r.result, !.notified = r.notified,
                                       !.probed = r.probed]]
    /\ UNCHANGED ruleSetVars

\* a goroutine enters IsDiscarder(event, field): it returns at once when the
\* field has no event type or the event type no bucket, else it gets a context
IsDiscarderEnter(t, event, field) ==
    /\ pc = "idle"
    /\ threads[t].pc = "idle"
    /\ LET et   == GetFieldEventType(event, field)
           call == [NewThread EXCEPT !.op = "IsDiscarder", !.event = event,
                                     !.field = field]
       IN  IF et.err # "nil"
           THEN /\ threads' = [threads EXCEPT ![t] = [call EXCEPT !.err = et.err]]
                /\ pool' = pool
           ELSE IF ~HasKey(eventRuleBuckets, et.eventType)
           THEN /\ threads' = [threads EXCEPT ![t] =
                                  [call EXCEPT !.err = "ErrNoEventTypeBucket"]]
                /\ pool' = pool
           ELSE \E c \in Available(pool) :
                  /\ pool' = PoolGet(pool, c, event)
                  /\ threads' = [threads EXCEPT ![t] =
                                    [call EXCEPT !.pc = "holding", !.ctx = c, !.gets = 1,
                                                 !.overlap = OthersHolding(threads, t)]]
    /\ UNCHANGED ruleSetVars

\* the rest of IsDiscarder: the loop runs on the context, the deferred Put
\* releases it
IsDiscarderReturn(t) ==
    /\ threads[t].pc = "holding"
    /\ threads[t].op = "IsDiscarder"
    /\ LET th == threads[t]
           r  == IsDiscarder(RS, InContext(pool, th.ctx, th.event), th.field)
       IN  /\ pool' = PoolPut(pool, th.ctx)
           /\ threads' = [threads EXCEPT ![t] =
                            [th EXCEPT !.pc = "idle", !.ctx = NoContext,
                                       !.overlap = th.overlap \/ OthersHolding(threads, t),
                                       !.puts = th.puts + 1,
                                       !.result = r.result, !.err = r.err]]
    /\ UNCHANGED ruleSetVars

\* no goroutine has called Evaluate or IsDiscarder yet: rules and listeners are
\* set up before events are evaluated
LoadPhase == \A t \in Threads : threads[t].op = "none"

\* the rules loaded and the calls made while goroutines evaluate concurrently
ConcDefinitions == {Def("r1", "fa"), Def("r2", "fafb")}

ConcEvent(v1, v2) ==
    [type |-> "open",
     vals |-> [f \in Fields |-> IF f = "open.filename" THEN v1
                                ELSE IF f = "open.flags" THEN v2 ELSE ""]]

ConcEvents == {ConcEvent("a", "b"), ConcEvent("b", "a"),
               [type |-> "exec", vals |-> [f \in Fields |->
                                              IF f = "exec.path" THEN "a" ELSE ""]]}

ConcFields == {"open.filename", "exec.path", UnknownField}

\* rules are loaded and a listener registered by one goroutine, then the
\* goroutines call Evaluate and IsDiscarder, their steps interleaved
NextConc ==
    \/ \E def \in ConcDefinitions : LoadPhase /\ AddRuleCall(def)
    \/ LoadPhase /\ AddRulesBegin
    \/ \E order \in Orders(DOMAIN eventRuleBuckets) : LoadPhase /\ AddRulesEnd(order)
    \/ LoadPhase /\ AddListener("l1")
    \/ \E t \in Threads, event \in ConcEvents : EvaluateEnter(t, event)
    \/ \E t \in Threads : EvaluateReturn(t)
    \/ \E t \in Threads, field \in ConcFields :
            IsDiscarderEnter(t, ConcEvent("b", "a"), field)
    \/ \E t \in Threads : IsDiscarderReturn(t)

SpecConc == Init /\ [][NextConc]_vars

\* the load phase: rules are added one by one and in batches
NextLoad ==
    \/ \E def \in RuleDefinitions : AddRuleCall(def)
    \/ AddRulesBegin
    \/ \E def \in SampleDefinitions : AddRulesStep(def)
    \/ \E order \in Orders(DOMAIN eventRuleBuckets) : AddRulesEnd(order)

SpecLoad == Init /\ [][NextLoad]_vars

\* rules are loaded, listeners registered and events evaluated, in any order
NextEval ==
    \/ \E def \in SampleDefinitions : AddRuleCall(def)
    \/ AddRulesBegin
    \/ \E order \in Orders(DOMAIN eventRuleBuckets) : AddRulesEnd(order)
    \/ \E l \in Listeners : AddListener(l)
    \/ \E event \in Events : EvaluateCall(event)
    \/ \E event \in Events, field \in Fields \cup {UnknownField} : IsDiscarderCall(event, field)
    \/ \E eventType \in EventTypes, fieldCaps \in FieldCapabilities :
            GetEventApproversCall(eventType, fieldCaps)
    \/ \E fieldCaps \in CapabilityMaps : GetApproversCall(fieldCaps)

SpecEval == Init /\ [][NextEval]_vars

(***************************************************************************)
(* Vocabulary of the properties.                                           *)
(***************************************************************************)
\* the rules of the bucket of an event type; none when there is no bucket
BucketRules(t) == IF HasKey(eventRuleBuckets, t) THEN eventRuleBuckets[t].rules ELSE <<>>

BucketFields(t) == IF HasKey(eventRuleBuckets, t) THEN eventRuleBuckets[t].fields ELSE <<>>

\* how many times a listener is registered
Registrations(l) == Cardinality({ i \in 1..Len(listeners) : listeners[i] = l })

\* how many RuleMatch callbacks listener l got for rule id in the last call
RuleMatches(l, id) ==
    Cardinality({ i \in 1..Len(notified) :
                    /\ notified[i].kind = "RuleMatch"
                    /\ notified[i].listener = l
                    /\ notified[i].rule = id })

\* how many EventDiscarderFound callbacks listener l got for field f in the last call
DiscardersFound(l, f) ==
    Cardinality({ i \in 1..Len(notified) :
                    /\ notified[i].kind = "EventDiscarderFound"
                    /\ notified[i].listener = l
                    /\ notified[i].field = f })

\* some rule of the sequence evaluates true on the event
SomeRuleMatches(brules, event) == \E i \in 1..Len(brules) : Eval(brules[i], event)

\* every rule of the sequence partially evaluates false on the field, without error
AllPartialsFalse(brules, event, f) ==
    \A i \in 1..Len(brules) :
        /\ PartialEval(brules[i], event, f).err = "nil"
        /\ ~PartialEval(brules[i], event, f).isTrue

\* some rule of the sequence partially evaluates true on the field
SomePartialTrue(brules, event, f) ==
    \E i \in 1..Len(brules) :
        /\ PartialEval(brules[i], event, f).err = "nil"
        /\ PartialEval(brules[i], event, f).isTrue

\* the supported-discarders allowlist lets the field through
PassesAllowlist(f) ==
    opts.SupportedDiscarders.isNil \/ f \in DOMAIN opts.SupportedDiscarders.m

(***************************************************************************)
(* C1: Evaluate(event) returns true if and only if at least one rule in    *)
(* the bucket of event.GetType() evaluates true on the event; it returns   *)
(* false when the event's type has no bucket.                              *)
(***************************************************************************)
C1_EvaluateIffSomeRuleMatches ==
    last.op = "Evaluate" =>
        /\ last.result = (/\ HasKey(eventRuleBuckets, last.event.type)
                          /\ SomeRuleMatches(BucketRules(last.event.type), last.event))
        /\ ~HasKey(eventRuleBuckets, last.event.type) => last.result = FALSE

\* an event matched the first rule of a two-rule bucket and not the second
C1_Witness ==
    /\ last.op = "Evaluate"
    /\ last.result = TRUE
    /\ Len(BucketRules(last.event.type)) = 2
    /\ Eval(BucketRules(last.event.type)[1], last.event)
    /\ ~Eval(BucketRules(last.event.type)[2], last.event)

(***************************************************************************)
(* C2: during one Evaluate call every registration of a listener receives  *)
(* exactly one RuleMatch callback for each rule of the bucket that         *)
(* evaluates true and none for a rule that evaluates false; an event that  *)
(* matches k rules yields k callbacks per registration.                    *)
(***************************************************************************)
C2_OneRuleMatchPerMatchingRule ==
    last.op = "Evaluate" =>
        LET brules == BucketRules(last.event.type)
        IN  /\ \A l \in Listeners, id \in RuleIDs :
                 RuleMatches(l, id) =
                    Registrations(l) *
                    Cardinality({ i \in 1..Len(brules) :
                                    brules[i].ID = id /\ Eval(brules[i], last.event) })
            /\ Cardinality({ i \in 1..Len(notified) : notified[i].kind = "RuleMatch" }) =
                 Len(listeners) *
                 Cardinality({ i \in 1..Len(brules) : Eval(brules[i], last.event) })

\* an event matched both rules of its bucket with two listeners registered
C2_Witness ==
    /\ last.op = "Evaluate"
    /\ Len(listeners) = 2
    /\ listeners[1] # listeners[2]
    /\ Len(BucketRules(last.event.type)) = 2
    /\ \A i \in 1..2 : Eval(BucketRules(last.event.type)[i], last.event)
    /\ Len(notified) = 4

(***************************************************************************)
(* C3 as stated: for an Evaluate call on an event matching no rule, every  *)
(* field of the bucket's field list for which all rules partially evaluate *)
(* false without error triggers exactly one EventDiscarderFound callback   *)
(* per registered listener, and a field for which a rule partially         *)
(* evaluates true triggers none.                                           *)
(***************************************************************************)
C3_Original ==
    (/\ last.op = "Evaluate"
     /\ HasKey(eventRuleBuckets, last.event.type)
     /\ ~SomeRuleMatches(BucketRules(last.event.type), last.event)) =>
        \A i \in 1..Len(BucketFields(last.event.type)), l \in Listeners :
            LET f == BucketFields(last.event.type)[i]
                brules == BucketRules(last.event.type)
            IN  /\ AllPartialsFalse(brules, last.event, f) =>
                      DiscardersFound(l, f) = Registrations(l)
                /\ SomePartialTrue(brules, last.event, f) => DiscardersFound(l, f) = 0

(***************************************************************************)
(* C3 amended: the same, for the fields the supported-discarders allowlist *)
(* lets through (the allowlist is nil or holds the field); a field the     *)
(* allowlist leaves out triggers no callback.                              *)
(***************************************************************************)
C3_Amended ==
    (/\ last.op = "Evaluate"
     /\ HasKey(eventRuleBuckets, last.event.type)
     /\ ~SomeRuleMatches(BucketRules(last.event.type), last.event)) =>
        \A i \in 1..Len(BucketFields(last.event.type)), l \in Listeners :
            LET f == BucketFields(last.event.type)[i]
                brules == BucketRules(last.event.type)
            IN  /\ (PassesAllowlist(f) /\ AllPartialsFalse(brules, last.event, f)) =>
                      DiscardersFound(l, f) = Registrations(l)
                /\ SomePartialTrue(brules, last.event, f) => DiscardersFound(l, f) = 0
                /\ DiscardersFound(l, f) # 0 =>
                      (PassesAllowlist(f) /\ AllPartialsFalse(brules, last.event, f))

\* an event matched no rule; one field of its bucket was a discarder and was
\* notified, another had a rule partially evaluating true and was not
C3_Witness ==
    /\ last.op = "Evaluate"
    /\ last.result = FALSE
    /\ Len(listeners) > 0
    /\ Len(BucketRules(last.event.type)) > 0
    /\ \E i, j \in 1..Len(BucketFields(last.event.type)) :
          LET f == BucketFields(last.event.type)[i]
              g == BucketFields(last.event.type)[j]
              brules == BucketRules(last.event.type)
          IN  /\ PassesAllowlist(f) /\ PassesAllowlist(g)
              /\ AllPartialsFalse(brules, last.event, f)
              /\ DiscardersFound(listeners[1], f) = Registrations(listeners[1])
              /\ SomePartialTrue(brules, last.event, g)
              /\ DiscardersFound(listeners[1], g) = 0

(***************************************************************************)
(* C4: IsDiscarder(event, field) returns true exactly when the bucket of   *)
(* the field's event type exists and every rule in it partially evaluates  *)
(* false on the field without error; otherwise it returns false, and an    *)
(* error met while resolving the field's event type or while partially     *)
(* evaluating a rule is returned along with false.                         *)
(***************************************************************************)
\* the first rule of the sequence on which PartialEval fails or gives true; 0 if none
FirstBlocking(brules, event, f) ==
    IF AllPartialsFalse(brules, event, f) THEN 0
    ELSE CHOOSE i \in 1..Len(brules) :
            /\ ~AllPartialsFalse(SubSeq(brules, i, i), event, f)
            /\ AllPartialsFalse(SubSeq(brules, 1, i - 1), event, f)

C4_IsDiscarderExact ==
    last.op = "IsDiscarder" =>
        LET known  == last.field \in Fields
            t      == IF known THEN FieldEventType(last.field) ELSE ""
            brules == BucketRules(t)
            k      == FirstBlocking(brules, last.event, last.field)
        IN  /\ last.result = (/\ known
                              /\ HasKey(eventRuleBuckets, t)
                              /\ AllPartialsFalse(brules, last.event, last.field))
            /\ last.result => last.err = "nil"
            /\ ~known => last.err = "ErrFieldNotFound"
            /\ (known /\ ~HasKey(eventRuleBuckets, t)) => last.err = "ErrNoEventTypeBucket"
            /\ (known /\ HasKey(eventRuleBuckets, t) /\ k # 0) =>
                  last.err = PartialEval(brules[k], last.event, last.field).err

\* IsDiscarder returned true for a field of another event type than the event's,
\* on a bucket that holds a rule
C4_Witness ==
    /\ last.op = "IsDiscarder"
    /\ last.result = TRUE
    /\ last.field \in Fields
    /\ FieldEventType(last.field) # last.event.type
    /\ Len(BucketRules(FieldEventType(last.field))) > 0

(***************************************************************************)
(* Vocabulary of the load-time properties.  A step is a call of AddRule    *)
(* (alone or from the loop of AddRules) exactly when it sets last.op to    *)
(* "AddRule"; unprimed variables are the rule set before the call.         *)
(***************************************************************************)
Reserved(id) == id \in Range(opts.ReservedRuleIDs)

\* the event types the atoms of a definition's expression belong to
TypesOf(def) ==
    { FieldEventType(ExprInfo(def.Expression).atoms[i].f) :
        i \in 1..Len(ExprInfo(def.Expression).atoms) }

Enabled(t) ==
    Wildcard \in DOMAIN opts.EventTypeEnabled \/ t \in DOMAIN opts.EventTypeEnabled

\* the definition gets as far as having an evaluator
HasEvaluator(def) ==
    /\ ~Reserved(def.ID)
    /\ def.ID \notin DOMAIN rules
    /\ ExprInfo(def.Expression).parse
    /\ ExprInfo(def.Expression).compile

\* the definition loads on its own into the rule set as it is
Loadable(def) ==
    /\ HasEvaluator(def)
    /\ Cardinality(TypesOf(def)) = 1
    /\ \A t \in TypesOf(def) : Enabled(t)

\* the call wrote nothing
NothingWritten ==
    /\ rules' = rules
    /\ eventRuleBuckets' = eventRuleBuckets
    /\ fields' = fields

\* the IDs held by the buckets
IDsInBuckets ==
    UNION { { eventRuleBuckets[t].rules[i].ID : i \in 1..Len(eventRuleBuckets[t].rules) } :
              t \in DOMAIN eventRuleBuckets }

(***************************************************************************)
(* C5: after any sequence of AddRule and AddRules calls on an empty rule   *)
(* set, ListRuleIDs() holds exactly the IDs of the definitions whose add   *)
(* succeeded, each once.                                                   *)
(***************************************************************************)
C5_ListRuleIDsAreTheLoaded ==
    LET ids == ListRuleIDs(RS)
    IN  /\ Range(ids) = succeeded
        /\ Len(ids) = Cardinality(succeeded)

\* two definitions loaded, then one was refused
C5_Witness ==
    /\ succeeded = {"r1", "r2"}
    /\ Len(ListRuleIDs(RS)) = 2
    /\ last.op = "AddRule"
    /\ last.err # "nil"

(***************************************************************************)
(* C6: adding a definition whose ID is in the rule table is rejected with  *)
(* the definition-ID conflict and the rule loaded first keeps its          *)
(* definition, expression and bucket; an ID is in the table only if a      *)
(* definition with that ID loaded, so the ID of a definition that failed   *)
(* can be loaded later.                                                    *)
(***************************************************************************)
C6_DuplicateRejectedFirstKept ==
    [][ /\ (last'.op = "AddRule" /\ last'.def.ID \in DOMAIN rules) =>
              /\ last'.err = "ErrDefinitionIDConflict"
              /\ NothingWritten
        /\ (last'.op = "AddRule" /\ last'.err = "ErrDefinitionIDConflict") =>
              last'.def.ID \in succeeded
        /\ (last'.op = "AddRule" /\ last'.def.ID \notin succeeded /\ Loadable(last'.def)) =>
              last'.err = "nil"
        /\ \A id \in DOMAIN rules :
              /\ id \in DOMAIN rules'
              /\ rules'[id].Expression = rules[id].Expression
        /\ \A t \in DOMAIN eventRuleBuckets :
              /\ t \in DOMAIN eventRuleBuckets'
              /\ \A i \in 1..Len(eventRuleBuckets[t].rules) :
                    /\ i <= Len(eventRuleBuckets'[t].rules)
                    /\ eventRuleBuckets'[t].rules[i].ID = eventRuleBuckets[t].rules[i].ID
                    /\ eventRuleBuckets'[t].rules[i].Expression =
                          eventRuleBuckets[t].rules[i].Expression
      ]_vars

\* a definition was refused as a duplicate of a rule that has another expression
\* and sits in another bucket than the one the definition would go to
C6_Witness ==
    /\ last.op = "AddRule"
    /\ last.err = "ErrDefinitionIDConflict"
    /\ rules[last.def.ID].Expression # last.def.Expression
    /\ Cardinality(TypesOf(last.def)) = 1
    /\ \A t \in TypesOf(last.def) : (Enabled(t) /\ ~HasKey(eventRuleBuckets, t))

(***************************************************************************)
(* C7 as stated: AddRules processes every definition of the batch whatever *)
(* errors occur; a definition that loads on its own is active afterwards   *)
(* wherever it stands in the batch; the combined error holds exactly one   *)
(* entry per failed definition and nothing else.                           *)
(***************************************************************************)
\* one turn of the loop: the definition loads iff it loads on its own, whatever
\* errors were collected before; a failure adds its one entry, a success none
BatchStepCollects ==
    (last'.op = "AddRule" /\ last'.inBatch) =>
        /\ (last'.err = "nil") = Loadable(last'.def)
        /\ last'.err = "nil" =>
              /\ result' = result
              /\ last'.def.ID \in DOMAIN rules'
              /\ rules'[last'.def.ID].Expression = last'.def.Expression
        /\ last'.err # "nil" =>
              /\ result' = Append(result, ErrRuleLoad(last'.def, last'.err))
              /\ NothingWritten

\* the loop goes on after a failure, up to the end of the batch
BatchGoesOn ==
    (pc = "AddRules" /\ nDefs < MaxBatch) =>
        /\ Len(result) <= nDefs
        /\ ENABLED AddRulesStep(Def("r2", "syn"))

C7_Original ==
    /\ []BatchGoesOn
    /\ [][ /\ BatchStepCollects
           /\ last'.op = "AddRules" => (last'.result = result /\ last'.n = nDefs)
         ]_vars

(***************************************************************************)
(* C7 amended: the same, except that the combined error holds one entry    *)
(* per failed definition, in batch order, followed by one more entry when  *)
(* the generation of the partials fails.                                   *)
(***************************************************************************)
\* GenPartials fails for some rule held by a bucket
SomePartialsFail ==
    \E t \in DOMAIN eventRuleBuckets : \E i \in 1..Len(eventRuleBuckets[t].rules) :
        ~ExprInfo(eventRuleBuckets[t].rules[i].Expression).partialsOK

C7_Amended ==
    /\ []BatchGoesOn
    /\ [][ /\ BatchStepCollects
           /\ last'.op = "AddRules" =>
                 /\ last'.n = nDefs
                 /\ last'.result = IF SomePartialsFail THEN Append(result, ErrPartials)
                                   ELSE result
                 /\ DOMAIN rules' = DOMAIN rules
         ]_vars

\* a batch of three definitions of which one had a syntax error: the two others
\* are active and the combined error holds the entry of the failed one only
C7_Witness ==
    /\ last.op = "AddRules"
    /\ last.n = 3
    /\ last.result = <<ErrRuleLoad(Def("r2", "syn"), "syntax error")>>
    /\ DOMAIN rules = {"r1", "r2"}
    /\ rules["r1"].Expression = "fa"
    /\ rules["r2"].Expression = "xa"

(***************************************************************************)
(* C8: a rule whose evaluator references more than one event type is       *)
(* rejected with the multiple-events error, one that references none with  *)
(* the rule-without-event error; the rule is then in no bucket and not in  *)
(* ListRuleIDs(), and no bucket is created.                                *)
(***************************************************************************)
C8_EventTypeCountChecked ==
    [][ last'.op = "AddRule" =>
          /\ (HasEvaluator(last'.def) /\ Cardinality(TypesOf(last'.def)) > 1) =>
                last'.err = "ErrRuleWithMultipleEvents"
          /\ (HasEvaluator(last'.def) /\ Cardinality(TypesOf(last'.def)) = 0) =>
                last'.err = "ErrRuleWithoutEvent"
          /\ last'.err \in {"ErrRuleWithMultipleEvents", "ErrRuleWithoutEvent"} =>
                /\ NothingWritten
                /\ ~Contains(ListRuleIDs([rules |-> rules']), last'.def.ID)
                /\ last'.def.ID \notin IDsInBuckets'
                /\ DOMAIN eventRuleBuckets' = DOMAIN eventRuleBuckets
      ]_vars

\* a definition over two event types was refused while none of the two has a bucket
C8_Witness ==
    /\ last.op = "AddRule"
    /\ last.err = "ErrRuleWithMultipleEvents"
    /\ Cardinality(TypesOf(last.def)) = 2
    /\ \A t \in TypesOf(last.def) : (Enabled(t) /\ ~HasKey(eventRuleBuckets, t))

(***************************************************************************)
(* C9: AddRule with a reserved ID is rejected with the internal-ID         *)
(* conflict, whatever the other checks would say (bad syntax, failing      *)
(* compilation, no or several event types); no reserved ID is ever in      *)
(* ListRuleIDs() or in a bucket.                                           *)
(***************************************************************************)
C9_ReservedIDRejectedFirst ==
    /\ [](\A id \in Range(ListRuleIDs(RS)) \cup IDsInBuckets : ~Reserved(id))
    /\ [][ (last'.op = "AddRule" /\ Reserved(last'.def.ID)) =>
              /\ last'.err = "ErrInternalIDConflict"
              /\ last'.err # "ErrDefinitionIDConflict"
              /\ NothingWritten
         ]_vars

\* a definition with a reserved ID and an expression that does not parse was
\* refused for its ID
C9_Witness ==
    /\ last.op = "AddRule"
    /\ Reserved(last.def.ID)
    /\ ~ExprInfo(last.def.Expression).parse
    /\ last.err = "ErrInternalIDConflict"

(***************************************************************************)
(* C10: unless the enabled-event-types map holds the wildcard, a rule      *)
(* whose event type is not a key of the map is rejected with the           *)
(* event-type-not-enabled error and creates no bucket; every event type of *)
(* GetEventTypes() is a key of the map, or the map holds the wildcard.     *)
(***************************************************************************)
C10_OnlyEnabledEventTypes ==
    /\ [](\A t \in Range(GetEventTypes(RS)) : Enabled(t))
    /\ [][ (/\ last'.op = "AddRule"
            /\ HasEvaluator(last'.def)
            /\ Cardinality(TypesOf(last'.def)) = 1
            /\ \E t \in TypesOf(last'.def) : ~Enabled(t)) =>
              /\ last'.err = "ErrEventTypeNotEnabled"
              /\ NothingWritten
         ]_vars

\* a rule of an event type that is not enabled was refused, a bucket of an
\* enabled type being there
C10_Witness ==
    /\ last.op = "AddRule"
    /\ last.err = "ErrEventTypeNotEnabled"
    /\ TypesOf(last.def) = {"exec"}
    /\ DOMAIN eventRuleBuckets = {"open"}

\* a is b with some entries left out, the order kept
RECURSIVE IsSubSeq(_, _)
IsSubSeq(a, b) ==
    IF a = <<>> THEN TRUE
    ELSE IF b = <<>> THEN FALSE
    ELSE IF Head(a) = Head(b) THEN IsSubSeq(Tail(a), Tail(b))
    ELSE IsSubSeq(a, Tail(b))

\* the definitions named by the entries of a combined error, in order
FailedDefinitions(res) == [i \in 1..Len(res) |-> res[i].Definition]

\* the definition at position i of a batch cannot compile, whatever the table
NeverCompiles(defs, i) == defs[i].Expression \in {"syn", "comp"}

\* the definition at position i of a batch compiles alone, and it is the first
\* of its ID that can be registered
FirstGood(defs, i, before) ==
    /\ defs[i].Expression = "fa"
    /\ defs[i].ID \notin DOMAIN before
    /\ \A j \in 1..(i - 1) : defs[j].ID = defs[i].ID => NeverCompiles(defs, j)

(***************************************************************************)
(* C11: AddMacros goes through every definition of the batch.  A           *)
(* definition whose ID the macro table already holds is reported as a      *)
(* duplicate definition and the registered macro is kept; a definition     *)
(* that fails to parse or compile is reported and never registered; a      *)
(* definition that loads is registered whatever fails before or after it;  *)
(* the combined error holds one entry per failed definition, in batch      *)
(* order.                                                                  *)
(***************************************************************************)
C11_AddMacrosCollectsAll ==
    last.op = "AddMacros" =>
        LET defs == last.defs
            res  == last.result
        IN  /\ \A k \in DOMAIN last.before : HasKey(macros, k) /\ macros[k] = last.before[k]
            /\ \A i \in 1..Len(defs) :
                  /\ defs[i].ID \in DOMAIN last.before =>
                        \E j \in 1..Len(res) :
                            res[j] = ErrMacroLoad(defs[i],
                                                  "multiple definition with the same ID")
                  /\ NeverCompiles(defs, i) =>
                        /\ \E j \in 1..Len(res) :
                              /\ res[j].Definition = defs[i]
                              /\ res[j].Err # "nil"
                        /\ \A k \in DOMAIN macros \ DOMAIN last.before :
                              ~(k = defs[i].ID /\ macros[k] = defs[i].Expression)
                  /\ FirstGood(defs, i, last.before) =>
                        /\ HasKey(macros, defs[i].ID)
                        /\ macros[defs[i].ID] = defs[i].Expression
            /\ \A k \in DOMAIN macros : macros[k] \notin {"syn", "comp"}
            /\ IsSubSeq(FailedDefinitions(res), defs)
            /\ Len(res) + Cardinality(DOMAIN macros \ DOMAIN last.before) = Len(defs)
            /\ Range(ListMacroIDs(macros)) = DOMAIN macros

\* a batch of three whose second definition repeats the ID of the first: the
\* first and the third are registered, the second is reported as a duplicate
C11_Witness ==
    /\ last.op = "AddMacros"
    /\ last.before = EmptyMap
    /\ Len(last.defs) = 3
    /\ last.defs[1] = [ID |-> "m1", Expression |-> "fa"]
    /\ last.defs[2] = [ID |-> "m1", Expression |-> "comp"]
    /\ last.defs[3] = [ID |-> "m2", Expression |-> "usem1"]
    /\ macros = ("m1" :> "fa" @@ "m2" :> "usem1")
    /\ Len(last.result) = 1
    /\ last.result[1] = ErrMacroLoad(last.defs[2], "multiple definition with the same ID")

\* the goroutine is between the Get and the Put of its call
Holding(t) == threads[t].pc = "holding"

\* the goroutine's last call has returned
Returned(t) == threads[t].pc = "idle" /\ threads[t].op # "none"

\* the goroutine's call is an IsDiscarder that fails before it reaches the pool:
\* the field has no event type, or the event type has no bucket
FailsAtLookup(t) ==
    /\ threads[t].op = "IsDiscarder"
    /\ \/ threads[t].field \notin Fields
       \/ ~HasKey(eventRuleBuckets, FieldEventType(threads[t].field))

\* the contexts checked out are those of the calls in flight, one each
PoolMatchesCalls ==
    /\ pool.out = { threads[t].ctx : t \in { u \in Threads : Holding(u) } }
    /\ \A t \in Threads : Holding(t) <=> threads[t].ctx # NoContext
    /\ Cardinality(pool.out) = Cardinality({ t \in Threads : Holding(t) })
    /\ (\A t \in Threads : ~Holding(t)) => pool.out = {}

\* C12 as stated: every call, whatever its exit path, gets one context and
\* puts it back once
C12_Original ==
    /\ PoolMatchesCalls
    /\ \A t \in Threads :
          /\ Holding(t) => threads[t].gets = 1 /\ threads[t].puts = 0
          /\ Returned(t) => threads[t].gets = 1 /\ threads[t].puts = 1

(***************************************************************************)
(* C12: every Evaluate call, and every IsDiscarder call that finds an      *)
(* event type for its field and a bucket for that type, gets one context   *)
(* from the pool and puts it back exactly once, whatever the call returns; *)
(* an IsDiscarder call that fails on its field or on a missing bucket      *)
(* returns before it gets a context and puts none back.  No call puts a    *)
(* context back twice or keeps one, and the contexts checked out are those *)
(* of the calls in flight: none when no call is in flight.                 *)
(***************************************************************************)
C12_Amended ==
    /\ PoolMatchesCalls
    /\ \A t \in Threads :
          /\ threads[t].puts <= threads[t].gets /\ threads[t].gets <= 1
          /\ Holding(t) => threads[t].gets = 1 /\ threads[t].puts = 0
          /\ (Returned(t) /\ ~FailsAtLookup(t)) =>
                threads[t].gets = 1 /\ threads[t].puts = 1
          /\ (Returned(t) /\ FailsAtLookup(t)) =>
                /\ threads[t].gets = 0 /\ threads[t].puts = 0
                /\ ~threads[t].result /\ threads[t].err # "nil"

\* an Evaluate of an event without bucket has returned its context, and an
\* IsDiscarder on a type without bucket has returned without getting one
C12_Witness ==
    /\ Returned("t1") /\ threads["t1"].op = "Evaluate"
    /\ ~HasKey(eventRuleBuckets, threads["t1"].event.type)
    /\ threads["t1"].gets = 1 /\ threads["t1"].puts = 1
    /\ Returned("t2") /\ threads["t2"].op = "IsDiscarder"
    /\ threads["t2"].err = "ErrNoEventTypeBucket"
    /\ threads["t2"].gets = 0
    /\ HasKey(eventRuleBuckets, "open")
    /\ pool.out = {}

\* no two calls in flight hold the same context, and the context of a call is
\* bound to the event of that call
ContextsExclusive ==
    /\ \A t, u \in Threads :
          (t # u /\ Holding(t) /\ Holding(u)) => threads[t].ctx # threads[u].ctx
    /\ \A t \in Threads : Holding(t) => pool.object[threads[t].ctx] = threads[t].event

\* the call a goroutine has returned from gave what the same call gives when
\* it runs alone on the rule set
AsIfAlone(t) ==
    LET th == threads[t]
    IN  /\ th.op = "Evaluate" =>
              LET r == Evaluate(RS, listeners, th.event)
              IN  /\ th.result = r.result
                  /\ th.notified = r.notified
                  /\ th.probed = r.probed
        /\ th.op = "IsDiscarder" =>
              LET r == IsDiscarder(RS, th.event, th.field)
              IN  th.result = r.result /\ th.err = r.err

(***************************************************************************)
(* C13: while goroutines call Evaluate and IsDiscarder concurrently on one *)
(* RuleSet and no add operation runs, no context is held by two calls at   *)
(* the same time, a step of a call writes nothing of the RuleSet (options, *)
(* rules, buckets, fields, listeners, macros), and every call returns the  *)
(* result and makes the callbacks it gives when it runs alone, on every    *)
(* interleaving of the calls.                                              *)
(***************************************************************************)
C13_ConcurrentCallsIndependent ==
    /\ [](ContextsExclusive /\ \A t \in Threads : Returned(t) => AsIfAlone(t))
    /\ [][ threads' # threads =>
              UNCHANGED <<opts, rules, eventRuleBuckets, fields, listeners, macros>>
         ]_vars

\* two calls on different events that overlapped have returned: an Evaluate
\* that notified the listener of a match and an IsDiscarder that answered true
C13_Witness ==
    /\ Returned("t1") /\ threads["t1"].op = "Evaluate" /\ threads["t1"].overlap
    /\ \E i \in 1..Len(threads["t1"].notified) :
          threads["t1"].notified[i].kind = "RuleMatch"
    /\ Returned("t2") /\ threads["t2"].op = "IsDiscarder" /\ threads["t2"].overlap
    /\ threads["t2"].result
    /\ threads["t1"].event # threads["t2"].event

(***************************************************************************)
(* C14: Evaluate leaves the rule table, the macro table, the buckets with  *)
(* their field lists, the global field list, the options and the listener  *)
(* list as they were; an Evaluate of the event the call before evaluated   *)
(* returns the same boolean, makes the same callbacks and probes the same  *)
(* fields.                                                                 *)
(***************************************************************************)
C14_EvaluateIdempotent ==
    [][ last'.op = "Evaluate" =>
          /\ UNCHANGED <<opts, rules, macros, eventRuleBuckets, fields, listeners>>
          /\ last'.repeated =>
                /\ last'.result = last.result
                /\ notified' = notified
                /\ last'.probed = last.probed
      ]_vars

\* an event was evaluated twice in a row, the listeners being told of a match
\* or of a discarder
C14_Witness ==
    /\ last.op = "Evaluate"
    /\ last.repeated
    /\ notified # <<>>
    /\ Len(listeners) > 0

(***************************************************************************)
(* C15: IsDiscarder on a field whose event type has no bucket returns      *)
(* false with the no-bucket error, GetEventApprovers on an event type      *)
(* without bucket returns the no-bucket error and no approvers; neither    *)
(* call makes a bucket or writes anything of the RuleSet.                  *)
(***************************************************************************)
C15_MissingBucketIsAnError ==
    [][ /\ (/\ last'.op = "IsDiscarder"
            /\ last'.field \in Fields
            /\ ~HasKey(eventRuleBuckets, FieldEventType(last'.field))) =>
              /\ ~last'.result
              /\ last'.err = "ErrNoEventTypeBucket"
        /\ (/\ last'.op = "GetEventApprovers"
            /\ ~HasKey(eventRuleBuckets, last'.eventType)) =>
              /\ last'.err = "ErrNoEventTypeBucket"
              /\ last'.approvers = {}
        /\ last'.op \in {"IsDiscarder", "GetEventApprovers"} =>
              UNCHANGED <<opts, rules, macros, eventRuleBuckets, fields, listeners>>
      ]_vars

\* the approvers of an event type without bucket were asked for, another event
\* type having a bucket with rules
C15_Witness ==
    /\ last.op = "GetEventApprovers"
    /\ last.eventType = "exec"
    /\ last.err = "ErrNoEventTypeBucket"
    /\ DOMAIN eventRuleBuckets = {"open"}
    /\ BucketRules("open") # <<>>

\* a callback without the listener it went to
Notification(n) == [kind |-> n.kind, rule |-> n.rule, field |-> n.field,
                    eventType |-> n.eventType]

\* the callbacks come in rounds, one round per notification: the round goes
\* through the listener list from its first entry to its last
InRegistrationOrder(notes, ls) ==
    LET n == Len(ls)
    IN  IF n = 0 THEN notes = <<>>
        ELSE /\ Len(notes) % n = 0
             /\ \A k \in 1..Len(notes) :
                   /\ notes[k].listener = ls[((k - 1) % n) + 1]
                   /\ Notification(notes[k]) = Notification(notes[k - ((k - 1) % n)])

(***************************************************************************)
(* C16: the callbacks of a notification are made within the Evaluate call  *)
(* that notifies, to the entries of the listener list in the order         *)
(* AddListener appended them; AddListener appends its listener whether or  *)
(* not the list holds it already, so a listener registered n times gets n  *)
(* callbacks per notification.                                             *)
(***************************************************************************)
C16_ListenersInRegistrationOrder ==
    /\ [](/\ notified # <<>> => last.op = "Evaluate"
          /\ last.op = "Evaluate" => InRegistrationOrder(notified, listeners))
    /\ [][ last'.op = "AddListener" => listeners' = Append(listeners, last'.listener) ]_vars

\* a listener registered twice got two callbacks for one notification
C16_Witness ==
    /\ last.op = "Evaluate"
    /\ Len(listeners) = 2
    /\ listeners[1] = listeners[2]
    /\ Len(notified) = 2
    /\ notified[1] = notified[2]

\* the callbacks of the last call that tell of a discarder
DiscarderNotes == { i \in 1..Len(notified) : notified[i].kind = "EventDiscarderFound" }

(***************************************************************************)
(* C17: an Evaluate call in which a rule of the bucket matches makes no    *)
(* EventDiscarderFound callback and runs no partial evaluator; neither     *)
(* does a call on an event whose type has no bucket.                       *)
(***************************************************************************)
C17_NoDiscarderSearchOnMatch ==
    (/\ last.op = "Evaluate"
     /\ \/ SomeRuleMatches(BucketRules(last.event.type), last.event)
        \/ ~HasKey(eventRuleBuckets, last.event.type)) =>
        /\ DiscarderNotes = {}
        /\ last.probed = <<>>

\* one rule of a bucket of two matched, the other did not: the listener was
\* told of the match only
C17_Witness ==
    /\ last.op = "Evaluate"
    /\ last.result
    /\ Len(BucketRules(last.event.type)) = 2
    /\ \E i \in 1..2 : ~Eval(BucketRules(last.event.type)[i], last.event)
    /\ Len(BucketFields(last.event.type)) = 2
    /\ Len(listeners) > 0
    /\ \A i \in 1..Len(notified) : notified[i].kind = "RuleMatch"
    /\ PassesAllowlist("open.flags")

\* the fields of a list that the supported-discarders map lets through
RECURSIVE Allowed(_)
Allowed(fs) ==
    IF fs = <<>> THEN <<>>
    ELSE IF PassesAllowlist(Head(fs)) THEN <<Head(fs)>> \o Allowed(Tail(fs))
    ELSE Allowed(Tail(fs))

\* the last call was an Evaluate that went into the search for discarders
SearchedDiscarders ==
    /\ last.op = "Evaluate"
    /\ HasKey(eventRuleBuckets, last.event.type)
    /\ ~SomeRuleMatches(BucketRules(last.event.type), last.event)

(***************************************************************************)
(* C18: with a supported-discarders map that is not nil, Evaluate makes no *)
(* EventDiscarderFound callback for a field that is not a key of the map   *)
(* and runs no partial evaluator for it, whatever the partial evaluations  *)
(* would give; with a nil map the search for discarders probes every field *)
(* of the bucket's field list, in order.                                   *)
(***************************************************************************)
C18_AllowlistFiltersDiscarders ==
    last.op = "Evaluate" =>
        /\ ~opts.SupportedDiscarders.isNil =>
              /\ \A i \in DiscarderNotes :
                    notified[i].field \in DOMAIN opts.SupportedDiscarders.m
              /\ \A f \in Range(last.probed) : f \in DOMAIN opts.SupportedDiscarders.m
        /\ SearchedDiscarders =>
              /\ last.probed = Allowed(BucketFields(last.event.type))
              /\ opts.SupportedDiscarders.isNil =>
                    last.probed = BucketFields(last.event.type)

\* a field that every rule of the bucket rules out, but that the map does not
\* hold, was passed over while a field of the map was probed
C18_Witness ==
    /\ SearchedDiscarders
    /\ ~opts.SupportedDiscarders.isNil
    /\ Len(listeners) > 0
    /\ \E f \in Range(BucketFields(last.event.type)) :
          /\ ~PassesAllowlist(f)
          /\ AllPartialsFalse(BucketRules(last.event.type), last.event, f)
          /\ \A i \in DiscarderNotes : notified[i].field # f
    /\ last.probed # <<>>

\* the last Evaluate told the listeners that the field is a discarder
NotifiedAsDiscarder(f) == \E i \in DiscarderNotes : notified[i].field = f

(***************************************************************************)
(* C19: the search for discarders of Evaluate agrees with IsDiscarder.     *)
(* When Evaluate matched no rule and listeners are registered, a field of  *)
(* the bucket's field list that passes the supported-discarders map and    *)
(* belongs to the event's type is notified as a discarder if and only if   *)
(* IsDiscarder(event, field) returns true on the same RuleSet.             *)
(***************************************************************************)
C19_EvaluateAgreesWithIsDiscarder ==
    (SearchedDiscarders /\ Len(listeners) > 0) =>
        \A f \in Range(BucketFields(last.event.type)) :
            (/\ PassesAllowlist(f)
             /\ GetFieldEventType(last.event, f).err = "nil"
             /\ GetFieldEventType(last.event, f).eventType = last.event.type) =>
                (NotifiedAsDiscarder(f) <=> IsDiscarder(RS, last.event, f).result)

\* of two fields of the bucket one was notified, IsDiscarder answering true
\* for it, and the other was not, IsDiscarder failing on a rule that has no
\* partial evaluator for it
C19_Witness ==
    /\ SearchedDiscarders
    /\ Len(listeners) > 0
    /\ \E f, g \in Range(BucketFields(last.event.type)) :
          /\ PassesAllowlist(f) /\ PassesAllowlist(g)
          /\ NotifiedAsDiscarder(f)
          /\ IsDiscarder(RS, last.event, f) = [result |-> TRUE, err |-> "nil"]
          /\ ~NotifiedAsDiscarder(g)
          /\ IsDiscarder(RS, last.event, g) = [result |-> FALSE, err |-> "ErrFieldNotFound"]

\* probing the field ends on a rule whose PartialEval fails
ProbeFailed(brules, event, f) ==
    LET i == FirstBlocking(brules, event, f)
    IN  i # 0 /\ PartialEval(brules[i], event, f).err # "nil"

\* the position of a field in a field list
IndexOf(fs, f) == CHOOSE i \in 1..Len(fs) : fs[i] = f

(***************************************************************************)
(* C20: Evaluate returns the match result and nothing else: a failing      *)
(* partial evaluation never changes the boolean.  In the search for        *)
(* discarders a failure while probing a field only keeps that field from   *)
(* being notified: every field of the bucket that passes the               *)
(* supported-discarders map is probed, before and after the failure, and   *)
(* each one that all rules rule out is notified once per registered        *)
(* listener.                                                               *)
(***************************************************************************)
C20_PartialErrorsNotSurfaced ==
    last.op = "Evaluate" =>
        /\ last.result = SomeRuleMatches(BucketRules(last.event.type), last.event)
        /\ SearchedDiscarders =>
              LET brules == BucketRules(last.event.type)
              IN  /\ last.probed = Allowed(BucketFields(last.event.type))
                  /\ \A f \in Range(last.probed) :
                        /\ ProbeFailed(brules, last.event, f) => ~NotifiedAsDiscarder(f)
                        /\ AllPartialsFalse(brules, last.event, f) =>
                              \A l \in Range(listeners) :
                                  DiscardersFound(l, f) = Registrations(l)

\* probing a field failed, and a field that comes after it in the bucket's
\* field list was probed and notified as a discarder
C20_Witness ==
    /\ SearchedDiscarders
    /\ Len(listeners) > 0
    /\ ~last.result
    /\ \E f, g \in Range(last.probed) :
          /\ IndexOf(last.probed, f) < IndexOf(last.probed, g)
          /\ ProbeFailed(BucketRules(last.event.type), last.event, f)
          /\ ~NotifiedAsDiscarder(f)
          /\ NotifiedAsDiscarder(g)

\* the places (event type, position) at which the buckets hold the rule ID
PlacesOf(id) ==
    UNION { { <<t, i>> : i \in { j \in 1..Len(eventRuleBuckets[t].rules) :
                                    eventRuleBuckets[t].rules[j].ID = id } } :
              t \in DOMAIN eventRuleBuckets }

(***************************************************************************)
(* C21: the buckets partition the rule table.  Every rule of the rule      *)
(* table is held by exactly one bucket, once, and that bucket is the one   *)
(* of the single event type its expression references; every rule a bucket *)
(* holds is the rule the rule table has under that ID, and its event type  *)
(* is the bucket's key.                                                    *)
(***************************************************************************)
C21_BucketsPartitionRules ==
    /\ \A id \in DOMAIN rules :
          /\ Cardinality(PlacesOf(id)) = 1
          /\ \A pl \in PlacesOf(id) : TypesOf(rules[id]) = {pl[1]}
    /\ \A t \in DOMAIN eventRuleBuckets :
          \A i \in 1..Len(eventRuleBuckets[t].rules) :
              LET rule == eventRuleBuckets[t].rules[i]
              IN  /\ HasKey(rules, rule.ID)
                  /\ rules[rule.ID] = rule
                  /\ GetEventTypesOfRule(rule) = <<t>>

\* two rules of two event types are loaded, each in the bucket of its type
C21_Witness ==
    /\ DOMAIN rules = {"r1", "r2"}
    /\ DOMAIN eventRuleBuckets = {"open", "exec"}
    /\ PlacesOf("r1") = {<<"open", 1>>}
    /\ PlacesOf("r2") = {<<"exec", 1>>}
    /\ pc = "idle"

\* the sequence a is the beginning of the sequence b
IsPrefix(a, b) == Len(a) <= Len(b) /\ SubSeq(b, 1, Len(a)) = a

\* no entry of the sequence comes twice
NoDuplicate(fs) == \A i, j \in 1..Len(fs) : fs[i] = fs[j] => i = j

(***************************************************************************)
(* C22: the global field list holds no field twice and holds every field a *)
(* loaded rule references; an add only appends to it, the list before     *)
(* being the beginning of the list after.  The field list of each bucket   *)
(* has the same properties with respect to the rules of the bucket.        *)
(***************************************************************************)
C22_FieldListsOnlyGrow ==
    /\ [](/\ NoDuplicate(fields)
          /\ \A id \in DOMAIN rules : Range(GetFields(rules[id])) \subseteq Range(fields)
          /\ \A t \in DOMAIN eventRuleBuckets :
                /\ NoDuplicate(eventRuleBuckets[t].fields)
                /\ \A i \in 1..Len(eventRuleBuckets[t].rules) :
                      Range(GetFields(eventRuleBuckets[t].rules[i]))
                          \subseteq Range(eventRuleBuckets[t].fields))
    /\ [][ /\ IsPrefix(fields, fields')
           /\ \A t \in DOMAIN eventRuleBuckets :
                 /\ HasKey(eventRuleBuckets', t)
                 /\ IsPrefix(eventRuleBuckets[t].fields, eventRuleBuckets'[t].fields)
         ]_vars

\* a rule was added that references a field already in the lists and a new
\* one: the new field came last
C22_Witness ==
    /\ last.op = "AddRule"
    /\ last.err = "nil"
    /\ last.def.Expression = "fafb"
    /\ fields = <<"open.filename", "open.flags">>
    /\ BucketFields("open") = <<"open.filename", "open.flags">>
    /\ Len(BucketRules("open")) = 2

\* every rule of the rule table and of the buckets has its partials
AllHavePartials(rs) ==
    /\ \A id \in DOMAIN rs.rules : rs.rules[id].partials
    /\ \A t \in DOMAIN rs.eventRuleBuckets :
          \A i \in 1..Len(rs.eventRuleBuckets[t].rules) :
              rs.eventRuleBuckets[t].rules[i].partials

\* the rule set after the step
RSAfter == [opts |-> opts', rules |-> rules', eventRuleBuckets |-> eventRuleBuckets',
            fields |-> fields']

(***************************************************************************)
(* C23: in AddRules no partial is generated while the definitions of the   *)
(* batch are processed: the rule a definition loads has none and the       *)
(* partials of the other rules stay as they are.  The pass over the        *)
(* buckets comes when the last definition is done; when the combined error *)
(* AddRules returns has no partial-generation entry, every rule of every   *)
(* bucket has its partials, and when the pass fails its entry is appended  *)
(* to the combined error, after the entries of the definitions.            *)
(***************************************************************************)
C23_PartialsAfterTheBatch ==
    [][ /\ last'.op = "AddRule" =>
              /\ genCalls' = genCalls
              /\ \A id \in DOMAIN rules : rules'[id].partials = rules[id].partials
              /\ \A id \in DOMAIN rules' \ DOMAIN rules : ~rules'[id].partials
        /\ last'.op = "AddRules" =>
              LET failed == \E i \in 1..Len(last'.result) : last'.result[i] = ErrPartials
              IN  /\ ~failed => AllHavePartials(RSAfter) /\ last'.result = result
                  /\ failed => /\ last'.result = Append(result, ErrPartials)
                                /\ ~AllHavePartials(RSAfter)
      ]_vars

\* a batch of two definitions of two event types returned no error: the rules
\* of both buckets have their partials
C23_Witness ==
    /\ last.op = "AddRules"
    /\ last.n = 2
    /\ last.result = <<>>
    /\ DOMAIN eventRuleBuckets = {"open", "exec"}
    /\ DOMAIN rules = {"r1", "r2"}
    /\ AllHavePartials(RS)

(***************************************************************************)
(* C24: GenPartials is called once per rule.  Over the AddRule and         *)
(* AddRules calls made on the rule set no loaded rule has GenPartials      *)
(* called on it more than once, and when AddRules has returned without     *)
(* error every loaded rule has had exactly one call.                       *)
(***************************************************************************)
C24_GenPartialsOncePerRule ==
    \A id \in DOMAIN rules :
        /\ genCalls[id] <= 1
        /\ (last.op = "AddRules" /\ last.result = <<>>) => genCalls[id] = 1

\* the macro m1 is registered when the definition at position i of the batch
\* is compiled: the table held it, or an earlier definition of the batch
\* registered it
M1Visible(defs, i, before) ==
    \/ HasKey(before, "m1")
    \/ \E j \in 1..(i - 1) : defs[j] = [ID |-> "m1", Expression |-> "fa"]

\* some definition of the batch that refers to m1 is compiled with m1 registered
SomeResolves(defs, before) ==
    \E i \in 1..Len(defs) : defs[i].Expression = "usem1" /\ M1Visible(defs, i, before)

\* the definition at position i refers to m1, its ID is free and m1 is not
\* registered when it is compiled
Unresolved(defs, i, before) ==
    /\ defs[i].Expression = "usem1"
    /\ ~HasKey(before, defs[i].ID)
    /\ ~M1Visible(defs, i, before)
    /\ \A j \in 1..(i - 1) :
          ~(defs[j].ID = defs[i].ID /\ defs[j].Expression = "usem1"
            /\ M1Visible(defs, j, before))

(***************************************************************************)
(* C25: a macro or a rule that refers to the macro m1 compiles if and only *)
(* if m1 was registered before it.  An AddMacro or AddRule of such a       *)
(* definition under a free ID succeeds when the table holds m1 and fails   *)
(* with a compilation error when it does not; a macro whose AddMacro       *)
(* failed is not in the table.  In an AddMacros batch a definition         *)
(* resolves m1 when the table held it or an earlier definition of the      *)
(* batch registered it, and fails to compile when m1 comes later.          *)
(***************************************************************************)
C25_MacrosVisibleOnceRegistered ==
    /\ [](last.op = "AddMacros" =>
            /\ (HasKey(macros, "m2") /\ ~HasKey(last.before, "m2")) <=>
                  (~HasKey(last.before, "m2") /\ SomeResolves(last.defs, last.before))
            /\ \A i \in 1..Len(last.defs) :
                  Unresolved(last.defs, i, last.before) =>
                      \E j \in 1..Len(last.result) :
                          last.result[j] = ErrMacroLoad(last.defs[i], "compilation error"))
    /\ [][ /\ (/\ last'.op = "AddMacro"
                /\ last'.def.Expression = "usem1"
                /\ ~HasKey(macros, last'.def.ID)) =>
                  /\ last'.err = IF HasKey(macros, "m1") THEN "nil"
                                 ELSE "compilation error"
                  /\ HasKey(macros', last'.def.ID) <=> HasKey(macros, "m1")
           /\ (last'.op = "AddMacro" /\ last'.err # "nil") => macros' = macros
           /\ (/\ last'.op = "AddRule"
                /\ last'.def.Expression = "rm1"
                /\ ~HasKey(rules, last'.def.ID)) =>
                  /\ last'.err = IF HasKey(macros, "m1") THEN "nil"
                                 ELSE "compilation error"
                  /\ HasKey(rules', last'.def.ID) <=> HasKey(macros, "m1")
         ]_vars

\* a batch on an empty table: the reference to m1 that comes before m1 failed
\* to compile, the reference that comes after it was registered
C25_Witness ==
    /\ last.op = "AddMacros"
    /\ last.before = EmptyMap
    /\ Len(last.defs) = 3
    /\ last.defs[1] = [ID |-> "m2", Expression |-> "usem1"]
    /\ last.defs[2] = [ID |-> "m1", Expression |-> "fa"]
    /\ last.defs[3] = [ID |-> "m2", Expression |-> "usem1"]
    /\ last.result = <<ErrMacroLoad(last.defs[1], "compilation error")>>
    /\ macros = ("m1" :> "fa" @@ "m2" :> "usem1")

\* every rule of the bucket of the event type has its partials
Resolvable(t) ==
    \A i \in 1..Len(BucketRules(t)) : BucketRules(t)[i].partials

(***************************************************************************)
(* C26: GetApprovers returns no error.  Its result has an entry for an     *)
(* event type exactly when the event type has a bucket, capabilities were  *)
(* supplied for it and its resolution succeeded; the entry is what         *)
(* GetEventApprovers returns for it.  An event type whose resolution fails *)
(* has no entry and the other event types keep theirs.  The call writes    *)
(* nothing of the RuleSet.                                                 *)
(***************************************************************************)
C26_GetApproversNeverFails ==
    [][ last'.op = "GetApprovers" =>
          /\ last'.err = "nil"
          /\ DOMAIN last'.approvers =
                { t \in EventTypes : /\ HasKey(eventRuleBuckets, t)
                                     /\ HasKey(last'.fieldCaps, t)
                                     /\ Resolvable(t) }
          /\ \A t \in DOMAIN last'.approvers :
                last'.approvers[t] = GetEventApprovers(RS, t, last'.fieldCaps[t]).approvers
          /\ UNCHANGED <<opts, rules, macros, eventRuleBuckets, fields, listeners>>
      ]_vars

\* capabilities were supplied for both event types, both have a bucket; the
\* resolution of one failed and the approvers of the other were returned
C26_Witness ==
    /\ last.op = "GetApprovers"
    /\ DOMAIN last.fieldCaps = {"open", "exec"}
    /\ DOMAIN eventRuleBuckets = {"open", "exec"}
    /\ ~Resolvable("exec")
    /\ DOMAIN last.approvers = {"open"}
    /\ last.approvers["open"] # {}
    /\ last.err = "nil"

(***************************************************************************)
(* C27: an AddRule that returns an error leaves the rule table, the        *)
(* buckets with their rules and field lists, and the field list of the     *)
(* RuleSet as they were: no bucket is made for the rejected rule and none  *)
(* of its fields is kept.  An AddMacro that returns an error leaves the    *)
(* macro table as it was.                                                  *)
(***************************************************************************)
C27_FailedAddLeavesNoTrace ==
    [][ /\ (last'.op = "AddRule" /\ last'.err # "nil") =>
              /\ rules' = rules
              /\ eventRuleBuckets' = eventRuleBuckets
              /\ fields' = fields
              /\ macros' = macros
        /\ (last'.op = "AddMacro" /\ last'.err # "nil") =>
              /\ macros' = macros
              /\ rules' = rules
              /\ eventRuleBuckets' = eventRuleBuckets
              /\ fields' = fields
      ]_vars

\* a rule on open and exec fields was rejected after it compiled: the rule
\* set holds the open rule loaded before it, no exec bucket and no exec field
C27_Witness ==
    /\ last.op = "AddRule"
    /\ last.def = Def("r1", "multi")
    /\ last.err # "nil"
    /\ DOMAIN rules = {"r2"}
    /\ DOMAIN eventRuleBuckets = {"open"}
    /\ fields = <<"open.filename">>

\* some rule of the rule table has the event type
SomeRuleOfType(t) ==
    \E id \in DOMAIN rules : GetRuleEventType(rules[id]).eventType = t

(***************************************************************************)
(* C28: no bucket is empty.  For every event type, HasRulesForEventType is *)
(* true exactly when GetEventTypes lists the event type, exactly when      *)
(* GetBucket returns a bucket for it, and exactly when some loaded rule    *)
(* has that event type; this holds after every add operation, inside a     *)
(* batch as well.                                                          *)
(***************************************************************************)
C28_NoEmptyBucket ==
    \A t \in EventTypes :
        /\ HasRulesForEventType(RS, t) <=> Contains(GetEventTypes(RS), t)
        /\ HasRulesForEventType(RS, t) <=> GetBucket(RS, t) # NilBucket
        /\ HasRulesForEventType(RS, t) <=> SomeRuleOfType(t)
        /\ GetBucket(RS, t) # NilBucket => GetBucket(RS, t).rules # <<>>

\* two open rules are loaded and a rule on exec events was rejected: the open
\* events have rules, the exec events have neither rules nor a bucket
C28_Witness ==
    /\ last.op = "AddRule"
    /\ last.def.Expression = "xa"
    /\ last.err # "nil"
    /\ DOMAIN rules = {"r1", "r2"}
    /\ HasRulesForEventType(RS, "open")
    /\ ~HasRulesForEventType(RS, "exec")
    /\ GetEventTypes(RS) = <<"open">>
    /\ GetBucket(RS, "exec") = NilBucket

\* the macros the second RuleSet lists
SecondMacroIDs == Range(ListMacroIDs(MacrosOf(second, macros)))

(***************************************************************************)
(* C29: the macro table belongs to one RuleSet.  The RuleSet NewRuleSet    *)
(* returns lists no macro, whichever options it was built from; the macros *)
(* a RuleSet lists are those added through it; an AddMacro on one RuleSet  *)
(* leaves the macros of the other as they were, and AddMacro fails as a    *)
(* duplicate only on an ID added through the same RuleSet.                 *)
(***************************************************************************)
C29_MacroTablePerRuleSet ==
    /\ [](second.built => SecondMacroIDs = second.own)
    /\ [][ /\ (last'.op = "NewRuleSet" /\ second'.built /\ ~second.built) =>
                  ListMacroIDs(MacrosOf(second', macros')) = <<>>
           /\ (last'.op = "AddMacro" /\ second.built) =>
                  MacrosOf(second', macros') = MacrosOf(second, macros)
           /\ last'.op = "AddMacroSecond" =>
                  /\ ListMacroIDs(macros') = ListMacroIDs(macros)
                  /\ last'.err = "multiple definition with the same ID" =>
                        last'.def.ID \in second.own
         ]_vars

(***************************************************************************)
(* C30: once Stop has returned, the listener goroutine Start spawned has   *)
(* left its loop and returned, and no event was dispatched after Stop      *)
(* returned; this for every interleaving of Stop with the goroutine, Stop  *)
(* running before the goroutine's wg.Add(1) included.                      *)
(***************************************************************************)
C30_StopEndsTheListener ==
    agent.stop = "returned" => (agent.listener = "done" /\ ~agent.afterStop)

====
